---- MODULE Spec2Model ----
(***************************************************************************)
(* Population managers (evo/PopulationManager.h), the World driver and the *)
(* lineage trackers (Standard and Pruned) of Empirical's evo/ directory.   *)
(*                                                                         *)
(* C++ vectors are modelled as sequences: slot i of a vector is element    *)
(* i+1 of the sequence.  A Node* is modelled by the key of the std::map    *)
(* entry it points to, wrapped in a one-element sequence; the null         *)
(* pointer is the empty sequence.  An organism is a record holding the     *)
(* identity of the allocation (oid) and its value (g).                     *)
(***************************************************************************)
EXTENDS Integers, Sequences, FiniteSets, TLC

\* ------------------------------------------------------------------ bounds
MaxOrgs == 5      \* ids the tracker may issue in one run
MaxPop == 3       \* slots of a population that grows by push_back

\* The organism values (ORG = int) the runs draw from.
Genomes == {1, 2}

\* ---------------------------------------------------------------- helpers
NullPtr == <<>>
Ptr(k) == <<k>>
Deref(p) == p[1]

NoOrg == [oid |-> 0, g |-> 0]
\* No SymbulationOrg has been constructed.
NoSym == <<>>
\* if (pop[pos]) delete pop[pos]: the pointers passed to delete.
DeleteIf(o) == IF o = NoOrg THEN <<>> ELSE <<o>>

\* The deletion record after delete has run on every pointer of del, in
\* order; delete of a null pointer does nothing.
RECURSIVE DeletedAfter(_, _)
DeletedAfter(d, del) ==
  IF del = <<>> THEN d
  ELSE LET o == Head(del)
           d1 == IF o = NoOrg THEN d
                 ELSE (o.oid :> ((IF o.oid \in DOMAIN d THEN d[o.oid] ELSE 0) + 1)) @@ d
       IN DeletedAfter(d1, Tail(del))

Org(oid, g) == [oid |-> oid, g |-> g]

At(v, i) == v[i + 1]
SetAt(v, i, x) == [v EXCEPT ![i + 1] = x]
Size(v) == Len(v)

\* emp::vector::resize(n): new slots are value-initialised to z.
Resize(v, n, z) ==
  IF n <= Len(v) THEN SubSeq(v, 1, n)
  ELSE v \o [i \in 1..(n - Len(v)) |-> z]

\* std::map operator[] / erase / count
MapPut(m, k, x) == [y \in (DOMAIN m) \cup {k} |-> IF y = k THEN x ELSE m[y]]
MapErase(m, k) == [y \in (DOMAIN m) \ {k} |-> m[y]]
MapHas(m, k) == k \in DOMAIN m

\* std::remove + erase: drop every occurrence of x from s
RECURSIVE RemoveAll(_, _)
RemoveAll(s, x) ==
  IF s = <<>> THEN <<>>
  ELSE IF Head(s) = x THEN RemoveAll(Tail(s), x)
       ELSE <<Head(s)>> \o RemoveAll(Tail(s), x)

Range(s) == {s[i] : i \in DOMAIN s}

VARIABLES
  variant,                  \* which PopulationManager the World was built with
  pop,                      \* PopulationManager_Base::pop
  next_pop,                 \* PopulationManager_EA::next_pop
  mgr,                      \* the manager's configuration and counters
  deleted,                  \* how often each organism was passed to delete
  nodes,                    \* LineageTracker_Pruned::nodes
  genomes,                  \* LineageTracker::genomes
  genome_counts,            \* LineageTracker_Pruned::genome_counts
  parents,                  \* LineageTracker::parents
  next,                     \* LineageTracker::next
  next_parent_id,           \* LineageTracker::next_parent_id
  next_org_id,              \* LineageTracker::next_org_id
  generation_since_update,  \* LineageTracker::generation_since_update
  new_generation,           \* LineageTracker::new_generation
  inject,                   \* LineageTracker::inject
  last_coalesence,          \* LineageTracker_Pruned::last_coalesence
  phase,                    \* where the World is inside Insert / InsertBirth
  new_org,                  \* the organism Insert / InsertBirth has allocated
  parent_pos,               \* the slot handed to OnBeforeRepro
  fault,                    \* "none", or how the run ended abnormally
  trace_out,                \* the last call a client made and what it got back
  sym                       \* a SymbulationOrg: its fields

popVars == <<variant, sym, pop, next_pop, mgr, deleted>>
ltVars == <<nodes, genomes, genome_counts, parents, next, next_parent_id,
            next_org_id, generation_since_update, new_generation, inject,
            last_coalesence>>
vars == <<variant, pop, next_pop, mgr, deleted, nodes, genomes, genome_counts, parents,
          next, next_parent_id, next_org_id, generation_since_update,
          new_generation, inject, last_coalesence, phase, new_org, parent_pos,
          fault, trace_out, sym>>

\* =================================================== population managers
\* Fields of mgr not used by a variant keep the values of NoMgr.
NoMgr == [max_size |-> 0, bottleneck_size |-> 0, num_bottlenecks |-> 0,
          width |-> 0, height |-> 0,
          pool_count |-> 0, pool_end |-> <<>>, pool_id |-> <<>>,
          connections |-> <<>>, org_count |-> 0]

emp_has_separate_generations == variant = "EA"

\* PopulationManager_Base::AddOrg: push_back.
AddOrg_Base(p, o) == [pop |-> Append(p, o), pos |-> Len(p), del |-> <<>>]

\* PopulationManager_Base::AddOrgBirth: r is the value of GetInt(pop.size()).
AddOrgBirth_Base(p, o, r) ==
  [pop |-> SetAt(p, r, o), pos |-> r, del |-> DeleteIf(At(p, r))]

\* An AddOrgBirth that reads the position after the push_back.
AddOrgBirth_EA_PosAfterPush(np, o) ==
  [next_pop |-> Append(np, o), pos |-> Len(np) + 1, del |-> <<>>]

\* PopulationManager_EA::AddOrgBirth: push_back on next_pop.
AddOrgBirth_EA(np, o) ==
  [next_pop |-> Append(np, o), pos |-> Len(np), del |-> <<>>]

\* emp::Shuffle(random, v, max_count): for i < max_count swap v[i] with
\* v[r[i]], r[i] drawn from [i, size).  picks is the sequence of draws.
RECURSIVE ShuffleFrom(_, _, _)
ShuffleFrom(v, picks, i) ==
  IF i >= Len(picks) THEN v
  ELSE LET j == At(picks, i)
           w == [v EXCEPT ![i + 1] = At(v, j), ![j + 1] = At(v, i)]
       IN ShuffleFrom(w, picks, i + 1)

Shuffle(v, picks) == ShuffleFrom(v, picks, 0)

\* The draws Shuffle may make on a vector of the given size.
ShufflePicks(size, max_count) ==
  {f \in [1..max_count -> 0..(size - 1)] : \A i \in 1..max_count : f[i] >= i - 1}

\* PopulationManager_Base::DoBottleneck(new_size, choose_random).
DoBottleneck(p, new_size, choose_random, picks) ==
  IF new_size >= Len(p) THEN p
  ELSE LET q == IF choose_random THEN Shuffle(p, picks) ELSE p
       IN SubSeq(q, 1, new_size)

\* A DoBottleneck whose delete loop starts one slot late.
DoBottleneck_del_OneLate(p, new_size, choose_random, picks) ==
  IF new_size >= Len(p) THEN <<>>
  ELSE LET q == IF choose_random THEN Shuffle(p, picks) ELSE p
       IN SubSeq(q, new_size + 2, Len(q))

\* DoBottleneck: the pointers it passes to delete, pop[new_size] onwards.
DoBottleneck_del(p, new_size, choose_random, picks) ==
  IF new_size >= Len(p) THEN <<>>
  ELSE LET q == IF choose_random THEN Shuffle(p, picks) ELSE p
       IN SubSeq(q, new_size + 1, Len(q))

\* PopulationManager_SerialTransfer::AddOrgBirth.
AddOrgBirth_SerialTransfer(p, m, o, picks) ==
  LET hit == Len(p) >= m.max_size
      q == IF hit THEN DoBottleneck(p, m.bottleneck_size, TRUE, picks) ELSE p
      m2 == IF hit THEN [m EXCEPT !.num_bottlenecks = @ + 1] ELSE m
  IN [pop |-> Append(q, o), mgr |-> m2, pos |-> Len(q),
      del |-> IF hit THEN DoBottleneck_del(p, m.bottleneck_size, TRUE, picks)
              ELSE <<>>]

\* A ToY that divides by the height instead of the width.
ToY_ByHeight(m, id) == id \div m.height

\* PopulationManager_Grid::ToX / ToY / ToID.
ToX(m, id) == id % m.width
ToY(m, id) == id \div m.width
ToID(m, x, y) == y * m.width + x

\* PopulationManager_Grid::GetValidOrgIndices: the empty slots, ascending.
RECURSIVE ValidFrom(_, _)
ValidFrom(p, i) ==
  IF i >= Len(p) THEN <<>>
  ELSE (IF At(p, i) = NoOrg THEN <<i>> ELSE <<>>) \o ValidFrom(p, i + 1)

GetValidOrgIndices(p) == ValidFrom(p, 0)

\* PopulationManager_Grid::AddOrg: r is the value of GetInt(empty_spots.size()).
AddOrg_Grid(p, o, r) ==
  LET empty_spots == GetValidOrgIndices(p)
  IN [pop |-> SetAt(p, At(empty_spots, r), o), pos |-> At(empty_spots, r),
      del |-> <<>>]

\* emp::mod: the remainder wrapped into [0, m).
EmpMod(v, m) == v % m

\* An AddOrgBirth that wraps the row by the width.
AddOrgBirth_Grid_WrapByWidth(p, m, o, ppos, offset) ==
  LET parent_x == ToX(m, ppos)
      parent_y == ToY(m, ppos)
      offspring_x == EmpMod(parent_x + (offset % 3) - 1, m.width)
      offspring_y == EmpMod(parent_y + (offset \div 3) - 1, m.width)
      pos == ToID(m, offspring_x, offspring_y)
  IN [pop |-> SetAt(p, pos, o), pos |-> pos, del |-> DeleteIf(At(p, pos))]

\* PopulationManager_Grid::AddOrgBirth: offset is the value of GetInt(9).
AddOrgBirth_Grid(p, m, o, ppos, offset) ==
  LET parent_x == ToX(m, ppos)
      parent_y == ToY(m, ppos)
      offspring_x == EmpMod(parent_x + (offset % 3) - 1, m.width)
      offspring_y == EmpMod(parent_y + (offset \div 3) - 1, m.height)
      pos == ToID(m, offspring_x, offspring_y)
  IN [pop |-> SetAt(p, pos, o), pos |-> pos, del |-> DeleteIf(At(p, pos))]

\* ---- PopulationManager_Pools
PoolDefaultSize == 40

RECURSIVE SumSeq(_)
SumSeq(s) == IF s = <<>> THEN 0 ELSE Head(s) + SumSeq(Tail(s))

Repeat(x, n) == [i \in 1..(IF n > 0 THEN n ELSE 0) |-> x]

\* A division that records each pool's size as its end.
RECURSIVE DividePools_SizeAsEnd(_, _)
DividePools_SizeAsEnd(sizes, st) ==
  IF sizes = <<>> THEN st
  ELSE LET arr_size == st.prev_size + Head(sizes)
           ids == [i \in DOMAIN st.pool_id |->
                     IF i - 1 >= st.prev_size /\ i - 1 < arr_size
                     THEN st.pool_num ELSE st.pool_id[i]]
       IN DividePools_SizeAsEnd(
            Tail(sizes),
            [pool_id |-> ids, pool_end |-> Append(st.pool_end, Head(sizes)),
             prev_size |-> arr_size, pool_num |-> st.pool_num + 1])

\* The "Divide World into pools" loop of ConfigPop: st carries pool_id,
\* pool_end, prev_size and pool_num while the sizes are consumed in order.
RECURSIVE DividePools(_, _)
DividePools(sizes, st) ==
  IF sizes = <<>> THEN st
  ELSE LET arr_size == st.prev_size + Head(sizes)
           ids == [i \in DOMAIN st.pool_id |->
                     IF i - 1 >= st.prev_size /\ i - 1 < arr_size
                     THEN st.pool_num ELSE st.pool_id[i]]
       IN DividePools(Tail(sizes),
                      [pool_id |-> ids, pool_end |-> Append(st.pool_end, arr_size),
                       prev_size |-> arr_size, pool_num |-> st.pool_num + 1])

\* PopulationManager_Pools::ConfigPop(pc, ps, c, u, l, mg, pop_size).  The
\* result carries the manager's fields, the resized population and how the
\* call ended: "ok", "error" (the early return after the message), "assert"
\* (the emp_assert on the total) or "hang" (the while(true) never breaks).
ConfigPop(oldpop, pc, ps, c, pop_size) ==
  LET base == [NoMgr EXCEPT !.pool_count = pc, !.connections = c,
                            !.pool_end = <<>>, !.pool_id = Repeat(0, pop_size)]
      newpop == Resize(oldpop, pop_size, NoOrg)
      fixed == Repeat(PoolDefaultSize, pc - 1)
      sizes == IF Len(ps) = 0 THEN Append(fixed, pop_size - SumSeq(fixed))
               ELSE IF Len(ps) = 1 THEN Repeat(ps[1], 1) \o Repeat(ps[1], pc - 1)
               ELSE ps
      st == DividePools(sizes, [pool_id |-> base.pool_id, pool_end |-> <<>>,
                                prev_size |-> 0, pool_num |-> 0])
  IN IF Len(ps) = 0 /\ ~(SumSeq(fixed) < pop_size)
       THEN [mgr |-> base, pop |-> newpop, status |-> "hang"]
     ELSE IF Len(ps) > 1 /\ Len(ps) # pc
       THEN [mgr |-> base, pop |-> newpop, status |-> "error"]
     ELSE IF SumSeq(sizes) # pop_size
       THEN [mgr |-> base, pop |-> newpop, status |-> "assert"]
     ELSE [mgr |-> [base EXCEPT !.pool_id = st.pool_id, !.pool_end = st.pool_end],
           pop |-> newpop, status |-> "ok"]

\* An AddOrg that always draws from the whole population.
PoolsAddOrgRange_Whole(p, m) == 0..(Len(p) - 1)

\* PopulationManager_Pools::AddOrg: r is the value of GetInt(range_l, range_u).
PoolsAddOrgRange(p, m) ==
  LET range_u == IF m.org_count < m.pool_count THEN At(m.pool_end, m.org_count)
                 ELSE Len(p)
      range_l == IF m.org_count < m.pool_count /\ m.org_count > 0
                 THEN At(m.pool_end, m.org_count - 1) ELSE 0
  IN range_l..(range_u - 1)

AddOrg_Pools(p, m, o, r) ==
  [pop |-> SetAt(p, r, o), mgr |-> [m EXCEPT !.org_count = @ + 1], pos |-> r,
   del |-> DeleteIf(At(p, r))]

\* PopulationManager_Pools::AddOrgBirth.  connections[parent_pos] is
\* std::map::operator[], which inserts an empty list for a missing key;
\* migrate is the value of P(mig_rate), conn_id of GetInt(0, size), r of
\* GetInt(range_l, range_u).
PoolsConnsAfterLookup(m, ppos) ==
  IF MapHas(m.connections, ppos) THEN m.connections
  ELSE MapPut(m.connections, ppos, <<>>)

PoolsInsertPool(m, ppos, migrate, conn_id) ==
  LET parent_conns == PoolsConnsAfterLookup(m, ppos)[ppos]
  IN IF migrate /\ Len(parent_conns) > 0 THEN At(parent_conns, conn_id)
     ELSE At(m.pool_id, ppos)

PoolRange(m, InsertPool) ==
  LET range_l == IF InsertPool # 0 THEN At(m.pool_end, InsertPool - 1) ELSE 0
      range_u == At(m.pool_end, InsertPool)
  IN range_l..(range_u - 1)

AddOrgBirth_Pools(p, m, o, ppos, r) ==
  [pop |-> SetAt(p, r, o),
   mgr |-> [m EXCEPT !.connections = PoolsConnsAfterLookup(m, ppos)],
   pos |-> r, del |-> DeleteIf(At(p, r))]

\* An Update that forgets to delete the old population.
Update_EA_NoDelete(p, np) == [pop |-> np, next_pop |-> <<>>, del |-> <<>>]

\* PopulationManager_EA::Update.
Update_EA(p, np) == [pop |-> np, next_pop |-> <<>>, del |-> p]

\* ====================================================== lineage trackers
\* Node(): a value-initialised Node.
ZeroNode == [parent |-> NullPtr, id |-> 0, alive |-> FALSE, genome |-> NullPtr,
             offspring |-> <<>>]

\* LineageTracker_Pruned::Setup: the null org, parent of inserted orgs.
SetupNodes == (0 :> [ZeroNode EXCEPT !.parent = Ptr(0)])

\* nodes[k]: std::map::operator[] default-constructs a missing entry.
NodesWith(ns, k) == IF MapHas(ns, k) THEN ns ELSE MapPut(ns, k, ZeroNode)

\* genome_counts[g]: operator[] on the count map.
CountOf(gc, g) == IF MapHas(gc, g) THEN gc[g] ELSE 0

\* An AddOrganism that sets the count to 1 whether or not the genome is
\* already stored.
CountsAfterAdd_Restart(gs, gc, org) == MapPut(gc, org, 1)

\* LineageTracker_Pruned::AddOrganism, the genome bookkeeping: insert into
\* the set; a fresh value starts at 1, a known one is incremented.
CountsAfterAdd(gs, gc, org) ==
  IF org \notin gs THEN MapPut(gc, org, 1) ELSE MapPut(gc, org, CountOf(gc, org) + 1)

\* LineageTracker_Pruned::AddOrganism(org, parent).
AddOrganism(org, parent) ==
  LET id == next
      n1 == MapPut(nodes, id, ZeroNode)
      n2 == NodesWith(n1, parent)
      n3 == [n2 EXCEPT ![id].parent = Ptr(parent)]
      n4 == [n3 EXCEPT ![parent].offspring = Append(@, id)]
      n5 == [n4 EXCEPT ![id].id = id, ![id].alive = TRUE, ![id].genome = Ptr(org)]
  IN [id |-> id, next |-> next + 1, nodes |-> n5,
      genomes |-> genomes \cup {org},
      genome_counts |-> CountsAfterAdd(genomes, genome_counts, org),
      parents |-> MapPut(parents, id, parent)]

\* A pruning test that forgets the surviving children: every dead node
\* but the null org goes.
PruneTest_IgnoreChildren(c) == ~c.alive /\ c.id # 0

\* The test of the pruning loop of TrackPlacement.
PruneTest(c) == Len(c.offspring) = 0 /\ ~c.alive

\* TrackPlacement, "See if we can remove this genome from the record".
CountsAfterRemove(gc, g) == MapPut(gc, g, CountOf(gc, g) - 1)

GenomesAfterRemove(gs, gc, g) ==
  IF CountsAfterRemove(gc, g)[g] = 0 THEN gs \ {g} ELSE gs

\* One pass of the pruning loop's body on the node at key st.curr.
PruneBody(st) ==
  LET c == st.nodes[st.curr]
      p == Deref(c.parent)
      g == Deref(c.genome)
      n1 == [st.nodes EXCEPT ![p].offspring = RemoveAll(@, st.curr)]
  IN [nodes |-> MapErase(n1, c.id),
      genomes |-> GenomesAfterRemove(st.genomes, st.genome_counts, g),
      genome_counts |-> CountsAfterRemove(st.genome_counts, g),
      curr |-> p, ub |-> FALSE]

\* A compaction that makes one pass where the code loops.
Prune_OnePass(st) ==
  IF ~MapHas(st.nodes, st.curr) THEN [st EXCEPT !.ub = TRUE]
  ELSE LET c == st.nodes[st.curr] IN
    IF ~PruneTest(c) THEN st
    ELSE IF c.parent = NullPtr \/ c.genome = NullPtr THEN [st EXCEPT !.ub = TRUE]
    ELSE IF ~MapHas(st.nodes, Deref(c.parent)) THEN [st EXCEPT !.ub = TRUE]
    ELSE PruneBody(st)

\* The pruning loop of TrackPlacement.  The body dereferences curr->parent
\* and curr->genome; on a node where either is null (the null org, or a
\* node operator[] created) the behaviour is undefined and the loop is
\* left with ub set, at the state it had on entry to that pass.  After a
\* pass the loop test reads curr again; if that node was just erased the
\* read is of freed memory and ub is set as well.
RECURSIVE Prune(_)
Prune(st) ==
  IF ~MapHas(st.nodes, st.curr) THEN [st EXCEPT !.ub = TRUE]
  ELSE LET c == st.nodes[st.curr] IN
    IF ~PruneTest(c) THEN st
    ELSE IF c.parent = NullPtr \/ c.genome = NullPtr THEN [st EXCEPT !.ub = TRUE]
    ELSE IF ~MapHas(st.nodes, Deref(c.parent)) THEN [st EXCEPT !.ub = TRUE]
    ELSE Prune(PruneBody(st))

\* What a build that does not trap on the null read does with the pass
\* that hit undefined behaviour: the value v read through the null genome
\* pointer is decremented in genome_counts and nodes.erase(old->id) runs.
GarbagePass(st, v) ==
  IF ~MapHas(st.nodes, st.curr) THEN st
  ELSE [st EXCEPT !.nodes = MapErase(st.nodes, st.nodes[st.curr].id),
                  !.genomes = GenomesAfterRemove(st.genomes, st.genome_counts, v),
                  !.genome_counts = CountsAfterRemove(st.genome_counts, v)]

\* A TrackPlacement whose coalescence loop is not guarded.
CoalescenceGuard_Off(inj) == TRUE

\* "!inject is a guard against changing the last_coalesence during
\* initialization."
CoalescenceGuard(inj) == ~inj

\* The coalescence loop of TrackPlacement: the new last_coalesence.
RECURSIVE Coalesce(_, _, _)
Coalesce(ns, curr, lc) ==
  LET c == ns[curr] IN
  IF c.id = lc /\ Len(c.offspring) = 1 /\ ~c.alive
  THEN Coalesce(ns, c.offspring[1], ns[c.offspring[1]].id)
  ELSE lc

\* A TrackPlacement that writes every placement to the current table.
PlacementIsBuffered_Never(inj) == FALSE

\* Which table TrackPlacement writes next_org_id to.
PlacementIsBuffered(inj) == emp_has_separate_generations /\ ~inj

GrownTo(v, pos) == IF pos >= Len(v) THEN Resize(v, pos + 1, 0) ELSE v

\* LineageTracker_Pruned::TrackPlacement(pos): the states it can leave.  A
\* record with fault "none" is the normal return; the others are the
\* outcomes of undefined behaviour in the pruning loop.
TrackPlacement(pos) ==
  LET gsu1 == GrownTo(generation_since_update, pos)
      k == At(gsu1, pos)
      n1 == [NodesWith(nodes, k) EXCEPT ![k].alive = FALSE]
      st == Prune([nodes |-> n1, genomes |-> genomes,
                   genome_counts |-> genome_counts, curr |-> k, ub |-> FALSE])
      lc == IF CoalescenceGuard(inject)
            THEN Coalesce(st.nodes, st.curr, last_coalesence)
            ELSE last_coalesence
      normal == [nodes |-> st.nodes, genomes |-> st.genomes,
                 genome_counts |-> st.genome_counts, last_coalesence |-> lc,
                 generation_since_update |->
                   IF PlacementIsBuffered(inject) THEN gsu1
                   ELSE SetAt(gsu1, pos, next_org_id),
                 new_generation |->
                   IF PlacementIsBuffered(inject)
                   THEN SetAt(GrownTo(new_generation, pos), pos, next_org_id)
                   ELSE new_generation,
                 fault |-> "none"]
      crashed(s) == [nodes |-> s.nodes, genomes |-> s.genomes,
                     genome_counts |-> s.genome_counts,
                     last_coalesence |-> last_coalesence,
                     generation_since_update |-> gsu1,
                     new_generation |-> new_generation,
                     fault |-> "undefined"]
  IN IF ~st.ub THEN {normal}
     ELSE {crashed(st)} \cup {crashed(GarbagePass(st, v)) : v \in Genomes}

\* LineageTracker_Pruned::RecordParent(id).
RecordParent(id) == At(generation_since_update, id)

\* LineageTracker_Pruned::Update(i).
Update_gsu == IF emp_has_separate_generations THEN new_generation
              ELSE generation_since_update

Update_new_generation == IF emp_has_separate_generations THEN <<>>
                         ELSE new_generation

\* The loop of TraceLineageIDs / TraceLineage: while (org->id) { push;
\* org = org->parent; }.  ids selects what is pushed: org->id or
\* *(org->genome).
RECURSIVE TraceWalk(_, _, _, _)
TraceWalk(ns, k, ids, fuel) ==
  IF fuel = 0 \/ ~MapHas(ns, k) THEN <<>>
  ELSE IF ns[k].id = 0 THEN <<>>
  ELSE <<IF ids THEN ns[k].id ELSE Deref(ns[k].genome)>>
       \o (IF ns[k].parent = NullPtr THEN <<>>
           ELSE TraceWalk(ns, Deref(ns[k].parent), ids, fuel - 1))

\* emp_assert(test) (tools/assert.h): the call goes on when test holds and
\* is aborted with a diagnostic when it does not.
emp_assert(test) == test

\* A trace whose precondition is not checked.
TraceAssert_Off(ns, org_id) == TRUE

\* emp_assert(nodes.count(org_id) == 1) of TraceLineageIDs / TraceLineage.
TraceAssert(ns, org_id) == MapHas(ns, org_id)

\* LineageTracker_Pruned::TraceLineageIDs(org_id) (ids) and TraceLineage
\* (~ids): the node map the call leaves and what it hands back.  A failed
\* emp_assert ends the call before nodes[org_id] is evaluated.
TraceLineageCall(org_id, ids) ==
  IF ~emp_assert(TraceAssert(nodes, org_id))
  THEN [nodes |-> nodes, out |-> <<"precondition violation">>]
  ELSE LET ns == NodesWith(nodes, org_id)
       IN [nodes |-> ns,
           out |-> <<"returned", TraceWalk(ns, org_id, ids, MaxOrgs + 2)>>]

\* LineageTracker::TraceLineageIDs(org_id) of the Standard tracker:
\* while (org_id) { push org_id; org_id = parents[org_id]; }.  parents is a
\* std::map<int,int>: a missing key reads as 0.  done is FALSE when the
\* loop is still running after fuel passes.
RECURSIVE TraceLineageIDs_Standard(_, _, _)
TraceLineageIDs_Standard(ps, org_id, fuel) ==
  IF org_id = 0 THEN [ids |-> <<>>, done |-> TRUE]
  ELSE IF fuel = 0 THEN [ids |-> <<>>, done |-> FALSE]
  ELSE LET rest == TraceLineageIDs_Standard(
                     ps, IF MapHas(ps, org_id) THEN ps[org_id] ELSE 0, fuel - 1)
       IN [ids |-> <<org_id>> \o rest.ids, done |-> rest.done]

\* ================================================================ World
Variants == {"Basic", "EA", "SerialTransfer", "Grid", "Pools"}

\* Configurations the managers are set up with.
GridShapes == {<<MaxPop, 1>>}
SerialTransferConfigs ==
  {c \in [max_size : (MaxPop - 1)..MaxPop, bottleneck_size : 1..(MaxPop - 1)] :
     c.bottleneck_size < c.max_size}
PoolsSetup == ConfigPop(<<>>, 2, <<MaxPop - 1, 1>>, (0 :> <<1>>), MaxPop)

InitManager(v, m, p) ==
  \/ v \in {"Basic", "EA"} /\ m = NoMgr /\ p = <<>>
  \/ v = "SerialTransfer" /\ p = <<>>
     /\ \E c \in SerialTransferConfigs :
          m = [NoMgr EXCEPT !.max_size = c.max_size,
                            !.bottleneck_size = c.bottleneck_size]
  \/ v = "Grid"
     /\ \E wh \in GridShapes :
          /\ m = [NoMgr EXCEPT !.width = wh[1], !.height = wh[2]]
          /\ p = Resize(<<>>, wh[1] * wh[2], NoOrg)
  \/ v = "Pools" /\ m = PoolsSetup.mgr /\ p = PoolsSetup.pop

InitTracker ==
  /\ nodes = SetupNodes
  /\ genomes = {}
  /\ genome_counts = <<>>
  /\ parents = <<>>
  /\ next = 1
  /\ next_parent_id = -1
  /\ next_org_id = 1
  /\ generation_since_update = <<>>
  /\ new_generation = <<>>
  /\ inject \in BOOLEAN
  /\ last_coalesence = 0

Init ==
  /\ variant \in Variants
  /\ sym = NoSym
  /\ next_pop = <<>>
  /\ deleted = <<>>
  /\ InitManager(variant, mgr, pop)
  /\ InitTracker
  /\ phase = "idle"
  /\ new_org = NoOrg
  /\ parent_pos = 0
  /\ fault = "none"
  /\ trace_out = <<"none">>

Occupied(p) == {i \in 0..(Len(p) - 1) : At(p, i) # NoOrg}

Running == fault = "none"

\* The World may allocate another organism.
MayAllocate == Running /\ phase = "idle" /\ next <= MaxOrgs

\* before_repro_sig.Trigger(parent) -> RecordParent.
BeforeRepro(p) ==
  /\ MayAllocate
  /\ p \in Occupied(pop)
  /\ variant = "EA" => Len(next_pop) < MaxPop
  /\ IF p < Len(generation_since_update)
     THEN next_parent_id' = RecordParent(p) /\ fault' = fault
     ELSE next_parent_id' = next_parent_id /\ fault' = "undefined"
  /\ phase' = "repro"
  /\ parent_pos' = p
  /\ UNCHANGED <<popVars, nodes, genomes, genome_counts, parents, next,
                 next_org_id, generation_since_update, new_generation, inject,
                 last_coalesence, new_org>>
  /\ trace_out' = <<"none">>

\* The tracker state AddOrganism leaves.
Added(r) ==
  /\ nodes' = r.nodes
  /\ genomes' = r.genomes
  /\ genome_counts' = r.genome_counts
  /\ parents' = r.parents
  /\ next' = r.next
  /\ next_org_id' = r.id

\* InsertBirth: new ORG(mem); offspring_ready_sig.Trigger -> TrackOffspring.
OffspringReady ==
  /\ Running /\ phase = "repro"
  /\ LET g == At(pop, parent_pos).g
         r == AddOrganism(g, next_parent_id)
     IN Added(r) /\ new_org' = Org(r.id, g)
  /\ inject' = FALSE
  /\ phase' = "born"
  /\ UNCHANGED <<popVars, next_parent_id, generation_since_update,
                 new_generation, last_coalesence, parent_pos, fault>>
  /\ trace_out' = <<"none">>

\* Insert: new ORG(mem); inject_ready_sig.Trigger -> TrackInjectedOffspring.
InjectReady(g) ==
  /\ MayAllocate
  /\ variant \in {"Basic", "EA", "SerialTransfer"} => Len(pop) < MaxPop
  /\ LET r == AddOrganism(g, 0)
     IN Added(r) /\ new_org' = Org(r.id, g)
  /\ inject' = TRUE
  /\ phase' = "injected"
  /\ UNCHANGED <<popVars, next_parent_id, generation_since_update,
                 new_generation, last_coalesence, parent_pos, fault>>
  /\ trace_out' = <<"none">>

\* org_placement_sig.Trigger(pos) -> TrackPlacement(pos).
Placed(pos) ==
  /\ \E o \in TrackPlacement(pos) :
       /\ nodes' = o.nodes
       /\ genomes' = o.genomes
       /\ genome_counts' = o.genome_counts
       /\ last_coalesence' = o.last_coalesence
       /\ generation_since_update' = o.generation_since_update
       /\ new_generation' = o.new_generation
       /\ fault' = o.fault
  /\ phase' = "idle"
  /\ new_org' = NoOrg
  /\ parent_pos' = 0
  /\ trace_out' = <<"none">>
  /\ UNCHANGED <<variant, sym, parents, next, next_parent_id, next_org_id, inject>>

\* Insert, from pop.AddOrg to the placement signal.
PlaceInjectedAppend ==
  /\ Running /\ phase = "injected"
  /\ variant \in {"Basic", "EA", "SerialTransfer"}
  /\ LET a == AddOrg_Base(pop, new_org)
     IN pop' = a.pop /\ Placed(a.pos)
          /\ deleted' = DeletedAfter(deleted, a.del)
  /\ UNCHANGED <<next_pop, mgr>>

PlaceInjectedGrid ==
  /\ Running /\ phase = "injected" /\ variant = "Grid"
  /\ Len(GetValidOrgIndices(pop)) > 0
  /\ \E r \in 0..(Len(GetValidOrgIndices(pop)) - 1) :
       LET a == AddOrg_Grid(pop, new_org, r)
       IN pop' = a.pop /\ Placed(a.pos)
          /\ deleted' = DeletedAfter(deleted, a.del)
  /\ UNCHANGED <<next_pop, mgr>>

\* On a full grid empty_spots is empty and empty_spots[pos] is out of range.
PlaceInjectedGridFull ==
  /\ Running /\ phase = "injected" /\ variant = "Grid"
  /\ Len(GetValidOrgIndices(pop)) = 0
  /\ fault' = "undefined"
  /\ trace_out' = <<"none">>
  /\ UNCHANGED <<popVars, ltVars, phase, new_org, parent_pos>>

PlaceInjectedPools ==
  /\ Running /\ phase = "injected" /\ variant = "Pools"
  /\ \E r \in PoolsAddOrgRange(pop, mgr) :
       LET a == AddOrg_Pools(pop, mgr, new_org, r)
       IN pop' = a.pop /\ mgr' = a.mgr /\ Placed(a.pos)
          /\ deleted' = DeletedAfter(deleted, a.del)
  /\ UNCHANGED next_pop

\* InsertBirth, from pop.AddOrgBirth to the placement signal.
PlaceBirthBasic ==
  /\ Running /\ phase = "born" /\ variant = "Basic"
  /\ \E r \in 0..(Len(pop) - 1) :
       LET a == AddOrgBirth_Base(pop, new_org, r)
       IN pop' = a.pop /\ Placed(a.pos)
          /\ deleted' = DeletedAfter(deleted, a.del)
  /\ UNCHANGED <<next_pop, mgr>>

PlaceBirthEA ==
  /\ Running /\ phase = "born" /\ variant = "EA"
  /\ LET a == AddOrgBirth_EA(next_pop, new_org)
     IN next_pop' = a.next_pop /\ Placed(a.pos)
          /\ deleted' = DeletedAfter(deleted, a.del)
  /\ UNCHANGED <<pop, mgr>>

PlaceBirthSerialTransfer ==
  /\ Running /\ phase = "born" /\ variant = "SerialTransfer"
  /\ \E picks \in ShufflePicks(Len(pop),
                               IF mgr.bottleneck_size < Len(pop)
                               THEN mgr.bottleneck_size ELSE 0) :
       LET a == AddOrgBirth_SerialTransfer(pop, mgr, new_org, picks)
       IN pop' = a.pop /\ mgr' = a.mgr /\ Placed(a.pos)
          /\ deleted' = DeletedAfter(deleted, a.del)
  /\ UNCHANGED next_pop

PlaceBirthGrid ==
  /\ Running /\ phase = "born" /\ variant = "Grid"
  /\ \E offset \in 0..8 :
       LET a == AddOrgBirth_Grid(pop, mgr, new_org, parent_pos, offset)
       IN pop' = a.pop /\ Placed(a.pos)
          /\ deleted' = DeletedAfter(deleted, a.del)
  /\ UNCHANGED <<next_pop, mgr>>

PlaceBirthPools ==
  /\ Running /\ phase = "born" /\ variant = "Pools"
  /\ \E migrate \in BOOLEAN :
     \E conn_id \in 0..(IF Len(PoolsConnsAfterLookup(mgr, parent_pos)[parent_pos]) > 0
                        THEN Len(PoolsConnsAfterLookup(mgr, parent_pos)[parent_pos]) - 1
                        ELSE 0) :
     \E r \in PoolRange(mgr, PoolsInsertPool(mgr, parent_pos, migrate, conn_id)) :
       LET a == AddOrgBirth_Pools(pop, mgr, new_org, parent_pos, r)
       IN pop' = a.pop /\ mgr' = a.mgr /\ Placed(a.pos)
          /\ deleted' = DeletedAfter(deleted, a.del)
  /\ UNCHANGED next_pop

\* World::Update: on_update_sig.Trigger -> tracker Update; then pop.Update().
UpdateStep ==
  /\ Running /\ phase = "idle"
  /\ generation_since_update' = Update_gsu
  /\ new_generation' = Update_new_generation
  /\ IF variant = "EA"
     THEN LET u == Update_EA(pop, next_pop)
          IN /\ pop' = u.pop /\ next_pop' = u.next_pop
             /\ deleted' = DeletedAfter(deleted, u.del)
     ELSE UNCHANGED <<pop, next_pop, deleted>>
  /\ UNCHANGED <<variant, sym, mgr, nodes, genomes, genome_counts, parents, next,
                 next_parent_id, next_org_id, inject, last_coalesence, phase,
                 new_org, parent_pos, fault>>
  /\ trace_out' = <<"none">>

Next ==
  \/ \E p \in 0..MaxPop : BeforeRepro(p)
  \/ OffspringReady
  \/ \E g \in Genomes : InjectReady(g)
  \/ PlaceInjectedAppend
  \/ PlaceInjectedGrid
  \/ PlaceInjectedGridFull
  \/ PlaceInjectedPools
  \/ PlaceBirthBasic
  \/ PlaceBirthEA
  \/ PlaceBirthSerialTransfer
  \/ PlaceBirthGrid
  \/ PlaceBirthPools
  \/ UpdateStep

Spec == Init /\ [][Next]_vars

\* ---- the World with a client that also traces lineages
TraceIds == 0..(MaxOrgs + 1)

\* A client calls TraceLineageIDs (ids) or TraceLineage (~ids) between
\* operations.  A precondition violation ends the run.
TraceStep(org_id, ids) ==
  /\ Running /\ phase = "idle"
  /\ LET r == TraceLineageCall(org_id, ids)
     IN /\ nodes' = r.nodes
        /\ trace_out' = <<IF ids THEN "TraceLineageIDs" ELSE "TraceLineage",
                          org_id>> \o r.out
        /\ fault' = IF r.out[1] = "returned" THEN fault ELSE "assert"
  /\ UNCHANGED <<popVars, genomes, genome_counts, parents, next, next_parent_id,
                 next_org_id, generation_since_update, new_generation, inject,
                 last_coalesence, phase, new_org, parent_pos>>

\* The managers the tracing client is run with.
TraceVariants == {"Basic", "EA"}

InitTrace == Init /\ variant \in TraceVariants

NextTrace ==
  \/ \E p \in 0..MaxPop : BeforeRepro(p)
  \/ OffspringReady
  \/ \E g \in Genomes : InjectReady(g)
  \/ PlaceInjectedAppend
  \/ PlaceBirthBasic
  \/ PlaceBirthEA
  \/ UpdateStep
  \/ \E org_id \in TraceIds : TraceStep(org_id, TRUE)
  \/ \E org_id \in TraceIds : TraceStep(org_id, FALSE)

SpecTrace == InitTrace /\ [][NextTrace]_vars

\* ---- the tracker driven directly through its callbacks
\* The callbacks Setup registers are plain member functions: whoever holds
\* the tracker (or the signals) can run them in any order.  phase records
\* the last notification: "repro" after RecordParent, "born" after
\* TrackOffspring, "injected" after TrackInjectedOffspring, "idle" after
\* TrackPlacement.
NotifyVariants == {"Basic", "EA"}

\* Organisms a callback-driven run allocates and slots it is told about.
NotifyMaxOrgs == 3
NotifyMaxPos == 2

InitNotify == Init /\ variant \in NotifyVariants

\* RecordParentFun(id).
NotifyRecordParent(id) ==
  /\ Running
  /\ IF id < Len(generation_since_update)
     THEN next_parent_id' = RecordParent(id) /\ fault' = fault
     ELSE next_parent_id' = next_parent_id /\ fault' = "undefined"
  /\ phase' = "repro"
  /\ trace_out' = <<"none">>
  /\ UNCHANGED <<popVars, nodes, genomes, genome_counts, parents, next,
                 next_org_id, generation_since_update, new_generation, inject,
                 last_coalesence, new_org, parent_pos>>

\* TrackOffspringFun(org).
NotifyOffspring(g) ==
  /\ Running /\ next <= NotifyMaxOrgs
  /\ Added(AddOrganism(g, next_parent_id))
  /\ inject' = FALSE
  /\ phase' = "born"
  /\ trace_out' = <<"none">>
  /\ UNCHANGED <<popVars, next_parent_id, generation_since_update,
                 new_generation, last_coalesence, new_org, parent_pos, fault>>

\* TrackInjectedOffspringFun(org).
NotifyInject(g) ==
  /\ Running /\ next <= NotifyMaxOrgs
  /\ Added(AddOrganism(g, 0))
  /\ inject' = TRUE
  /\ phase' = "injected"
  /\ trace_out' = <<"none">>
  /\ UNCHANGED <<popVars, next_parent_id, generation_since_update,
                 new_generation, last_coalesence, new_org, parent_pos, fault>>

\* TrackPlacementFun(pos).
NotifyPlacement(pos) ==
  /\ Running
  /\ Placed(pos)
  /\ UNCHANGED <<pop, next_pop, mgr, deleted>>

\* UpdateFun(ud).
NotifyUpdate ==
  /\ Running
  /\ generation_since_update' = Update_gsu
  /\ new_generation' = Update_new_generation
  /\ trace_out' = <<"none">>
  /\ UNCHANGED <<popVars, nodes, genomes, genome_counts, parents, next,
                 next_parent_id, next_org_id, inject, last_coalesence, phase,
                 new_org, parent_pos, fault>>

NextNotify ==
  \/ \E id \in 0..(NotifyMaxPos - 1) : NotifyRecordParent(id)
  \/ \E g \in Genomes : NotifyOffspring(g)
  \/ \E g \in Genomes : NotifyInject(g)
  \/ \E pos \in 0..(NotifyMaxPos - 1) : NotifyPlacement(pos)
  \/ NotifyUpdate

SpecNotify == InitNotify /\ [][NextNotify]_vars

\* ---- the population managers called directly
\* AddOrg, AddOrgBirth, Update and DoBottleneck are public: a client can
\* call them on a manager in any order.  trace_out holds the call and the
\* position it returned; new_org is the organism allocated last.
MgrVariants == {"Basic", "EA", "SerialTransfer"}

\* Organisms a run allocates, and the sizes ConfigPop / DoBottleneck are
\* given.
MgrMaxOrgs == 5
MgrMaxSize == 3

\* The managers do not look at the organisms they hold: one value will do.
MgrGenomes == {1}

\* ConfigPop(m, b) takes any two sizes.
MgrSerialTransferConfigs ==
  [max_size : 1..MgrMaxSize, bottleneck_size : 1..MgrMaxSize]

InitMgr ==
  /\ variant \in MgrVariants
  /\ sym = NoSym
  /\ pop = <<>>
  /\ next_pop = <<>>
  /\ deleted = <<>>
  /\ IF variant = "SerialTransfer"
     THEN \E c \in MgrSerialTransferConfigs :
            mgr = [NoMgr EXCEPT !.max_size = c.max_size,
                                !.bottleneck_size = c.bottleneck_size]
     ELSE mgr = NoMgr
  /\ InitTracker
  /\ phase = "idle"
  /\ new_org = NoOrg
  /\ parent_pos = 0
  /\ fault = "none"
  /\ trace_out = <<"none">>

\* new ORG(mem): the next organism.
MgrMayAllocate == Running /\ new_org.oid < MgrMaxOrgs
MgrNewOrg(g) == Org(new_org.oid + 1, g)

\* What every direct call leaves alone.
MgrFrame == UNCHANGED <<variant, sym, ltVars, phase, parent_pos>>

\* pop.AddOrg(new_org): none of the three managers overrides it.
MgrAddOrg(g) ==
  /\ MgrMayAllocate
  /\ LET a == AddOrg_Base(pop, MgrNewOrg(g))
     IN /\ pop' = a.pop
        /\ deleted' = DeletedAfter(deleted, a.del)
        /\ trace_out' = <<"AddOrg", a.pos>>
  /\ new_org' = MgrNewOrg(g)
  /\ UNCHANGED <<next_pop, mgr, fault>>
  /\ MgrFrame

\* PopulationManager_Base::AddOrgBirth on a population with slots.
MgrAddOrgBirth_Base(g) ==
  /\ MgrMayAllocate /\ variant = "Basic" /\ Len(pop) > 0
  /\ \E r \in 0..(Len(pop) - 1) :
       LET a == AddOrgBirth_Base(pop, MgrNewOrg(g), r)
       IN /\ pop' = a.pop
          /\ deleted' = DeletedAfter(deleted, a.del)
          /\ trace_out' = <<"AddOrgBirth", a.pos>>
  /\ new_org' = MgrNewOrg(g)
  /\ UNCHANGED <<next_pop, mgr, fault>>
  /\ MgrFrame

\* PopulationManager_Base::AddOrgBirth on a population without slots:
\* whatever GetInt(0) returns, pop[pos] is outside the vector.
MgrAddOrgBirth_BaseEmpty(g) ==
  /\ MgrMayAllocate /\ variant = "Basic" /\ Len(pop) = 0
  /\ new_org' = MgrNewOrg(g)
  /\ fault' = "undefined"
  /\ trace_out' = <<"AddOrgBirth">>
  /\ UNCHANGED <<pop, next_pop, mgr, deleted>>
  /\ MgrFrame

MgrAddOrgBirth_EA(g) ==
  /\ MgrMayAllocate /\ variant = "EA"
  /\ LET a == AddOrgBirth_EA(next_pop, MgrNewOrg(g))
     IN /\ next_pop' = a.next_pop
        /\ deleted' = DeletedAfter(deleted, a.del)
        /\ trace_out' = <<"AddOrgBirth", a.pos>>
  /\ new_org' = MgrNewOrg(g)
  /\ UNCHANGED <<pop, mgr, fault>>
  /\ MgrFrame

MgrAddOrgBirth_SerialTransfer(g) ==
  /\ MgrMayAllocate /\ variant = "SerialTransfer"
  /\ \E picks \in ShufflePicks(Len(pop),
                               IF Len(pop) >= mgr.max_size
                                  /\ mgr.bottleneck_size < Len(pop)
                               THEN mgr.bottleneck_size ELSE 0) :
       LET a == AddOrgBirth_SerialTransfer(pop, mgr, MgrNewOrg(g), picks)
       IN /\ pop' = a.pop
          /\ mgr' = a.mgr
          /\ deleted' = DeletedAfter(deleted, a.del)
          /\ trace_out' = <<"AddOrgBirth", a.pos>>
  /\ new_org' = MgrNewOrg(g)
  /\ UNCHANGED <<next_pop, fault>>
  /\ MgrFrame

\* PopulationManager_EA::Update.
MgrUpdate ==
  /\ Running /\ variant = "EA"
  /\ LET u == Update_EA(pop, next_pop)
     IN /\ pop' = u.pop /\ next_pop' = u.next_pop
        /\ deleted' = DeletedAfter(deleted, u.del)
  /\ trace_out' = <<"Update">>
  /\ UNCHANGED <<mgr, new_org, fault>>
  /\ MgrFrame

\* PopulationManager_Base::DoBottleneck(new_size, choose_random).
MgrDoBottleneck(new_size, choose_random) ==
  /\ Running
  /\ \E picks \in ShufflePicks(Len(pop),
                               IF choose_random /\ new_size < Len(pop)
                               THEN new_size ELSE 0) :
       /\ pop' = DoBottleneck(pop, new_size, choose_random, picks)
       /\ deleted' = DeletedAfter(
                       deleted, DoBottleneck_del(pop, new_size, choose_random, picks))
  /\ trace_out' = <<"DoBottleneck", new_size, choose_random>>
  /\ UNCHANGED <<next_pop, mgr, new_org, fault>>
  /\ MgrFrame

NextMgr ==
  \/ \E g \in MgrGenomes : MgrAddOrg(g)
  \/ \E g \in MgrGenomes : MgrAddOrgBirth_Base(g)
  \/ \E g \in MgrGenomes : MgrAddOrgBirth_BaseEmpty(g)
  \/ \E g \in MgrGenomes : MgrAddOrgBirth_EA(g)
  \/ \E g \in MgrGenomes : MgrAddOrgBirth_SerialTransfer(g)
  \/ MgrUpdate
  \/ \E new_size \in 0..MgrMaxSize : \E choose_random \in BOOLEAN :
       MgrDoBottleneck(new_size, choose_random)

SpecMgr == InitMgr /\ [][NextMgr]_vars

\* ============================== the grid's index arithmetic, on its own
\* ToX, ToY and ToID are protected members of PopulationManager_Grid; the
\* steps below apply them to every index and every coordinate pair of
\* every grid ConfigPop(w, h) can set up within GridMaxDim.
GridMaxDim == 4

GridConfigsRT == [width : 1..GridMaxDim, height : 1..GridMaxDim]

InitGrid ==
  /\ variant = "Grid"
  /\ sym = NoSym
  /\ \E c \in GridConfigsRT :
       /\ mgr = [NoMgr EXCEPT !.width = c.width, !.height = c.height]
       /\ pop = [i \in 1..(c.width * c.height) |-> NoOrg]
  /\ next_pop = <<>>
  /\ deleted = <<>>
  /\ InitTracker
  /\ phase = "idle"
  /\ new_org = NoOrg
  /\ parent_pos = 0
  /\ fault = "none"
  /\ trace_out = <<"none">>

GridFrame ==
  UNCHANGED <<variant, sym, pop, next_pop, mgr, deleted, ltVars, phase, new_org,
              parent_pos, fault>>

\* ToID(ToX(id), ToY(id)) for a slot of the grid.
GridIndexRoundTrip(id) ==
  /\ trace_out = <<"none">>
  /\ id \in 0..(Len(pop) - 1)
  /\ LET x == ToX(mgr, id)
         y == ToY(mgr, id)
     IN trace_out' = <<"index", id, x, y, ToID(mgr, x, y)>>
  /\ GridFrame

\* ToX(ToID(x, y)) and ToY(ToID(x, y)) for a cell of the grid.
GridCellRoundTrip(x, y) ==
  /\ trace_out = <<"none">>
  /\ x \in 0..(mgr.width - 1) /\ y \in 0..(mgr.height - 1)
  /\ LET id == ToID(mgr, x, y)
     IN trace_out' = <<"cell", x, y, id, ToX(mgr, id), ToY(mgr, id)>>
  /\ GridFrame

NextGrid ==
  \/ \E id \in 0..(GridMaxDim * GridMaxDim) : GridIndexRoundTrip(id)
  \/ \E x, y \in 0..GridMaxDim : GridCellRoundTrip(x, y)

SpecGrid == InitGrid /\ [][NextGrid]_vars

\* ===================== the Grid and Pools managers, called directly
\* Grids up to SlotMaxDim x SlotMaxDim and a few pool layouts; a run
\* allocates up to SlotMaxOrgs organisms.
SlotMaxDim == 3
SlotMaxOrgs == 3

SlotGridConfigs == [width : 1..SlotMaxDim, height : 1..SlotMaxDim]

\* ConfigPop(pc, ps, c, ...) arguments: explicit sizes and an adjacency
\* map whose lists name pools.
SlotPoolConfigs ==
  {[ps |-> <<2, 1>>, c |-> <<>>],
   [ps |-> <<2, 1>>, c |-> (0 :> <<1>>)],
   [ps |-> <<1, 2>>, c |-> (1 :> <<0>>)],
   [ps |-> <<2, 1, 1>>, c |-> (1 :> <<2>>)],
   [ps |-> <<1, 1, 1>>, c |-> (0 :> <<1, 2>>)]}

InitSlots ==
  /\ variant \in {"Grid", "Pools"}
  /\ sym = NoSym
  /\ IF variant = "Grid"
     THEN \E c \in SlotGridConfigs :
            /\ mgr = [NoMgr EXCEPT !.width = c.width, !.height = c.height]
            /\ pop = Resize(<<>>, c.width * c.height, NoOrg)
     ELSE \E c \in SlotPoolConfigs :
            LET k == ConfigPop(<<>>, Len(c.ps), c.ps, c.c, SumSeq(c.ps))
            IN mgr = k.mgr /\ pop = k.pop
  /\ next_pop = <<>>
  /\ deleted = <<>>
  /\ InitTracker
  /\ phase = "idle"
  /\ new_org = NoOrg
  /\ parent_pos = 0
  /\ fault = "none"
  /\ trace_out = <<"none">>

SlotMayAllocate == Running /\ new_org.oid < SlotMaxOrgs

\* What no manager method touches.
SlotFrame == UNCHANGED <<variant, sym, next_pop, ltVars, phase>>

\* PopulationManager_Grid::AddOrg with an empty slot left.
SlotAddOrg_Grid(g) ==
  /\ SlotMayAllocate /\ variant = "Grid"
  /\ Len(GetValidOrgIndices(pop)) > 0
  /\ \E r \in 0..(Len(GetValidOrgIndices(pop)) - 1) :
       LET a == AddOrg_Grid(pop, MgrNewOrg(g), r)
       IN /\ pop' = a.pop
          /\ deleted' = DeletedAfter(deleted, a.del)
          /\ trace_out' = <<"AddOrg", a.pos>>
  /\ new_org' = MgrNewOrg(g)
  /\ UNCHANGED <<mgr, parent_pos, fault>>
  /\ SlotFrame

\* PopulationManager_Grid::AddOrg on a full grid: empty_spots is empty,
\* GetInt(0) is drawn and empty_spots[pos] is outside the vector.
SlotAddOrg_GridFull(g) ==
  /\ SlotMayAllocate /\ variant = "Grid"
  /\ Len(GetValidOrgIndices(pop)) = 0
  /\ new_org' = MgrNewOrg(g)
  /\ fault' = "undefined"
  /\ trace_out' = <<"AddOrg">>
  /\ UNCHANGED <<pop, mgr, deleted, parent_pos>>
  /\ SlotFrame

\* PopulationManager_Grid::AddOrgBirth for a parent that sits at ppos.
SlotAddOrgBirth_Grid(g, ppos, offset) ==
  /\ SlotMayAllocate /\ variant = "Grid"
  /\ ppos \in Occupied(pop)
  /\ LET a == AddOrgBirth_Grid(pop, mgr, MgrNewOrg(g), ppos, offset)
     IN /\ pop' = a.pop
        /\ deleted' = DeletedAfter(deleted, a.del)
        /\ trace_out' = <<"AddOrgBirth", a.pos, offset>>
  /\ new_org' = MgrNewOrg(g)
  /\ parent_pos' = ppos
  /\ UNCHANGED <<mgr, fault>>
  /\ SlotFrame

\* PopulationManager_Pools::AddOrg.
SlotAddOrg_Pools(g) ==
  /\ SlotMayAllocate /\ variant = "Pools"
  /\ \E r \in PoolsAddOrgRange(pop, mgr) :
       LET a == AddOrg_Pools(pop, mgr, MgrNewOrg(g), r)
       IN /\ pop' = a.pop /\ mgr' = a.mgr
          /\ deleted' = DeletedAfter(deleted, a.del)
          /\ trace_out' = <<"AddOrg", a.pos>>
  /\ new_org' = MgrNewOrg(g)
  /\ UNCHANGED <<parent_pos, fault>>
  /\ SlotFrame

\* PopulationManager_Pools::AddOrgBirth for a parent that sits at ppos.
SlotAddOrgBirth_Pools(g, ppos, migrate) ==
  /\ SlotMayAllocate /\ variant = "Pools"
  /\ ppos \in Occupied(pop)
  /\ LET parent_conns == PoolsConnsAfterLookup(mgr, ppos)[ppos]
     IN \E conn_id \in 0..(IF Len(parent_conns) > 0 THEN Len(parent_conns) - 1 ELSE 0) :
          LET InsertPool == PoolsInsertPool(mgr, ppos, migrate, conn_id)
          IN \E r \in PoolRange(mgr, InsertPool) :
               LET a == AddOrgBirth_Pools(pop, mgr, MgrNewOrg(g), ppos, r)
               IN /\ pop' = a.pop /\ mgr' = a.mgr
                  /\ deleted' = DeletedAfter(deleted, a.del)
                  /\ trace_out' = <<"AddOrgBirth", a.pos, InsertPool>>
  /\ new_org' = MgrNewOrg(g)
  /\ parent_pos' = ppos
  /\ UNCHANGED fault
  /\ SlotFrame

\* The caller marks what it hands over: injected organisms carry
\* SlotInjected, offspring SlotBorn.  The managers never look inside.
SlotInjected == 1
SlotBorn == 2

NextSlots ==
  \/ SlotAddOrg_Grid(SlotInjected)
  \/ SlotAddOrg_GridFull(SlotInjected)
  \/ \E ppos \in 0..(SlotMaxDim * SlotMaxDim - 1) :
       \E offset \in 0..8 : SlotAddOrgBirth_Grid(SlotBorn, ppos, offset)
  \/ SlotAddOrg_Pools(SlotInjected)
  \/ \E ppos \in 0..(SlotMaxDim * SlotMaxDim - 1) :
       \E migrate \in BOOLEAN : SlotAddOrgBirth_Pools(SlotBorn, ppos, migrate)

SpecSlots == InitSlots /\ [][NextSlots]_vars

\* ================================ PopulationManager_Pools::ConfigPop
\* ConfigPop on a freshly constructed manager, for pool counts up to
\* CfgMaxPools, size lists over 1..CfgMaxSize and population sizes up to
\* CfgMaxPop or that far above PoolDefaultSize; up to CfgMaxOrgs organisms
\* are injected afterwards.
CfgMaxPools == 3
CfgMaxSize == 2
CfgMaxPop == 4
CfgMaxOrgs == 1

CfgSizeLists ==
  UNION {[1..n -> 1..CfgMaxSize] : n \in 0..CfgMaxPools}

CfgPopSizes ==
  (1..CfgMaxPop) \cup ((PoolDefaultSize + 1)..(PoolDefaultSize + CfgMaxPop))

\* PopulationManager_Pools(): org_count(0), nothing configured yet.
InitConfig ==
  /\ variant = "Pools"
  /\ sym = NoSym
  /\ mgr = NoMgr
  /\ pop = <<>>
  /\ next_pop = <<>>
  /\ deleted = <<>>
  /\ InitTracker
  /\ phase = "idle"
  /\ new_org = NoOrg
  /\ parent_pos = 0
  /\ fault = "none"
  /\ trace_out = <<"none">>

CfgFrame == UNCHANGED <<variant, sym, next_pop, ltVars, phase, parent_pos>>

\* ConfigPop(pc, ps, c, u, l, mg, pop_size): the call returns ("ok" or
\* after the error message), stops at the emp_assert, or never leaves the
\* while (true).
CfgConfigPop(pc, ps, pop_size) ==
  /\ Running /\ trace_out = <<"none">>
  /\ LET k == ConfigPop(pop, pc, ps, <<>>, pop_size)
     IN /\ mgr' = k.mgr
        /\ pop' = k.pop
        /\ fault' = CASE k.status = "hang" -> "hang"
                      [] k.status = "assert" -> "abort"
                      [] OTHER -> "none"
        /\ trace_out' = <<"ConfigPop", pc, ps, pop_size, k.status>>
  /\ UNCHANGED <<deleted, new_org>>
  /\ CfgFrame

\* AddOrg after a ConfigPop that returned.
CfgAddOrg(g) ==
  /\ Running /\ trace_out[1] # "none" /\ new_org.oid < CfgMaxOrgs
  /\ mgr.org_count < mgr.pool_count => mgr.org_count < Len(mgr.pool_end)
  /\ \E r \in PoolsAddOrgRange(pop, mgr) :
       LET a == AddOrg_Pools(pop, mgr, MgrNewOrg(g), r)
       IN /\ pop' = a.pop /\ mgr' = a.mgr
          /\ deleted' = DeletedAfter(deleted, a.del)
          /\ trace_out' = <<"AddOrg", a.pos>>
  /\ new_org' = MgrNewOrg(g)
  /\ UNCHANGED fault
  /\ CfgFrame

\* AddOrg when pool_end has no element org_count: pool_end[org_count] is
\* outside the vector.
CfgAddOrg_NoTopology(g) ==
  /\ Running /\ trace_out[1] # "none" /\ new_org.oid < CfgMaxOrgs
  /\ mgr.org_count < mgr.pool_count /\ mgr.org_count >= Len(mgr.pool_end)
  /\ new_org' = MgrNewOrg(g)
  /\ fault' = "undefined"
  /\ trace_out' = <<"AddOrg">>
  /\ UNCHANGED <<pop, mgr, deleted>>
  /\ CfgFrame

NextConfig ==
  \/ \E pc \in 1..CfgMaxPools : \E ps \in CfgSizeLists :
       \E pop_size \in CfgPopSizes : CfgConfigPop(pc, ps, pop_size)
  \/ CfgAddOrg(SlotInjected)
  \/ CfgAddOrg_NoTopology(SlotInjected)

SpecConfig == InitConfig /\ [][NextConfig]_vars

\* ================================================= World::EliteSelect
\* A World on the Basic or the synchronous-generations manager.  The
\* value of an organism is its fitness (fit_fun reads it); populations of
\* up to EliteMaxPop organisms with fitness 1..EliteMaxFit, e_count up to
\* EliteMaxE, copy_count up to EliteMaxCopies.
EliteMaxPop == 3
EliteMaxFit == 3
EliteMaxE == 2
EliteMaxCopies == 2
EliteMaxOrgs == EliteMaxPop + EliteMaxE * EliteMaxCopies

EliteVariants == {"Basic", "EA"}

fit_fun(o) == o.g

\* What a read of a deleted organism may give: the old bytes, or
\* something else.
EliteGarbage == 0
EliteReads == {"crash", "stale", "garbage"}

\* A ranking in which, of two organisms of equal fitness, the earlier one
\* comes first.
EliteRank_EarlierFirst(p) ==
  LET n == Len(p)
      ahead(i, j) == \/ fit_fun(At(p, i)) > fit_fun(At(p, j))
                     \/ fit_fun(At(p, i)) = fit_fun(At(p, j)) /\ i < j
  IN [k \in 1..n |->
        CHOOSE i \in 0..(n - 1) :
          Cardinality({j \in 0..(n - 1) : ahead(j, i)}) = k - 1]

\* std::multimap<double, int>::insert: behind the entries whose key is
\* not greater (a new entry goes to the end of its equal range).
FitMapInsert(fit_map, key, val) ==
  LET n == Cardinality({i \in 1..Len(fit_map) : fit_map[i].key <= key})
  IN SubSeq(fit_map, 1, n) \o <<[key |-> key, val |-> val]>>
       \o SubSeq(fit_map, n + 1, Len(fit_map))

\* "Load the population into a multimap, sorted by fitness."
RECURSIVE FitMapLoad(_, _, _)
FitMapLoad(p, i, fit_map) ==
  IF i >= Len(p) THEN fit_map
  ELSE FitMapLoad(p, i + 1, FitMapInsert(fit_map, fit_fun(At(p, i)), i))

\* The indices in the order m = fit_map.rbegin(), ++m visits them.
EliteRank(p) ==
  LET fit_map == FitMapLoad(p, 0, <<>>)
  IN [k \in 1..Len(fit_map) |-> fit_map[Len(fit_map) + 1 - k].val]

\* World::InsertBirth(mem, copy_count) inside EliteSelect.  mem is a
\* reference to the organism pop[m->second] pointed at when the call
\* began; st carries the population, the buffer, the organisms deleted so
\* far, the births made, the last organism allocated and the draw to use
\* next.  Once a birth has deleted the organism mem refers to, new
\* ORG(mem) reads a deleted object.
RECURSIVE InsertBirth(_, _, _, _, _, _)
InsertBirth(v, st, mem, left, draws, read) ==
  IF left = 0 \/ st.fault # "none" THEN st
  ELSE LET dangling == \E i \in 1..Len(st.del) : st.del[i].oid = mem.oid
           g == IF dangling /\ read = "garbage" THEN EliteGarbage ELSE mem.g
           new == Org(st.last.oid + 1, g)
           a == IF v = "EA"
                THEN [pop |-> st.pop, del |-> <<>>,
                      next_pop |-> AddOrgBirth_EA(st.next_pop, new).next_pop]
                ELSE LET b == AddOrgBirth_Base(st.pop, new, draws[st.k])
                     IN [pop |-> b.pop, del |-> b.del, next_pop |-> st.next_pop]
       IN IF dangling /\ read = "crash"
          THEN [st EXCEPT !.fault = "undefined"]
          ELSE InsertBirth(v,
                 [pop |-> a.pop, next_pop |-> a.next_pop,
                  del |-> st.del \o a.del,
                  births |-> Append(st.births, [src |-> mem.oid, g |-> g]),
                  last |-> new, k |-> st.k + 1, fault |-> "none"],
                 mem, left - 1, draws, read)

\* "Grab the top fitnesses and move them into the next generation."
RECURSIVE EliteLoop(_, _, _, _, _, _, _, _)
EliteLoop(v, st, rank, i, e_count, copy_count, draws, read) ==
  IF i >= e_count \/ st.fault # "none" THEN st
  ELSE EliteLoop(v,
         InsertBirth(v, st, At(st.pop, At(rank, i)), copy_count, draws, read),
         rank, i + 1, e_count, copy_count, draws, read)

\* The emp_assert of EliteSelect on its argument.
EliteAssert_NoLower(e_count, size) == emp_assert(e_count <= size)

EliteAssert(e_count, size) == emp_assert(e_count > 0 /\ e_count <= size)

\* The emp_assert of TournamentSelect on its argument.
TournamentAssert(t_size, size) == emp_assert(t_size > 0 /\ t_size <= size)

\* Tournaments of up to TourneyMaxSize entrants, up to TourneyMaxCount of
\* them in one call.
TourneyMaxSize == 2
TourneyMaxCount == 2

\* random_ptr->Choose(N, K): K different values of 0..N-1, in the order
\* drawn.
Choose(N, K) ==
  {e \in [1..K -> 0..(N - 1)] : \A i, j \in 1..K : i # j => e[i] # e[j]}

\* "if (precalc_fitness && t_size * tourny_count * 2 >= (int) pop.size())"
UsePrecalc(precalc_fitness, t_size, tourny_count, size) ==
  precalc_fitness /\ t_size * tourny_count * 2 >= size

\* "emp::vector<double> fitness(pop.size()); fitness[i] = fit_fun(pop[i])"
PrecalcFitness(p) == [i \in 1..Len(p) |-> fit_fun(p[i])]

\* The loop over the entrants: best_id starts as entries[0] and moves to
\* a later entrant only when that one is strictly fitter.
RECURSIVE BestEntry(_, _, _, _, _)
BestEntry(entries, fits, i, best_fit, best_id) ==
  IF i > Len(entries) THEN best_id
  ELSE IF fits[i] > best_fit
       THEN BestEntry(entries, fits, i + 1, fits[i], entries[i])
       ELSE BestEntry(entries, fits, i + 1, best_fit, best_id)

\* World::RunTournament, both overloads: precalc says which.  fitness is
\* the vector filled before the first tournament; the other overload
\* calls fit_fun on pop[entries[i]] as it goes.  rt.st is the state
\* InsertBirth works on; rt.obs notes, for every tournament, the entrants,
\* their fitness as the overload saw it (seen), the organisms at those
\* indices at that moment (occ), and the index copied.
RECURSIVE RunTournament(_, _, _, _, _, _, _, _)
RunTournament(v, rt, precalc, fitness, entries, T, tourny_count, draws) ==
  IF T >= tourny_count THEN rt
  ELSE LET e == entries[T + 1]
           occ == [i \in 1..Len(e) |-> At(rt.st.pop, e[i])]
           seen == [i \in 1..Len(e) |->
                      IF precalc THEN At(fitness, e[i]) ELSE fit_fun(occ[i])]
           best_id == BestEntry(e, seen, 2, seen[1], e[1])
       IN RunTournament(v,
            [st |-> InsertBirth(v, rt.st, At(rt.st.pop, best_id), 1, draws, "stale"),
             obs |-> Append(rt.obs, [entries |-> e, seen |-> seen, occ |-> occ,
                                     best_id |-> best_id])],
            precalc, fitness, entries, T + 1, tourny_count, draws)

\* The births of one TournamentSelect call on population p.
TournamentRun(v, p, np, last, precalc, entries, tourny_count, draws) ==
  RunTournament(v,
    [st |-> [pop |-> p, next_pop |-> np, del |-> <<>>, births |-> <<>>,
             last |-> last, k |-> 1, fault |-> "none"],
     obs |-> <<>>],
    precalc, PrecalcFitness(p), entries, 0, tourny_count, draws)

\* What mut_fun makes of an organism it changes.
Mutated(o) == Org(o.oid, (o.g % EliteMaxFit) + 1)

\* "for (int i = 1; ...": where the mutation pass starts.
MutateFirst_Arg(first_mut) == first_mut

MutateFirst(first_mut) == 1

\* World::MutatePop(mut_fun, first_mut).  changes[i + 1] says whether
\* mut_fun changes pop[i] (and returns true) should it be called on it.
\* mp.calls lists the indices mut_fun was called on, in order.
RECURSIVE MutateLoop(_, _, _)
MutateLoop(mp, i, changes) ==
  IF i >= Len(mp.pop) THEN mp
  ELSE MutateLoop(
         [pop |-> IF changes[i + 1] THEN SetAt(mp.pop, i, Mutated(At(mp.pop, i)))
                  ELSE mp.pop,
          calls |-> Append(mp.calls, i),
          mut_count |-> mp.mut_count + (IF changes[i + 1] THEN 1 ELSE 0)],
         i + 1, changes)

MutatePop(p, first_mut, changes) ==
  MutateLoop([pop |-> p, calls |-> <<>>, mut_count |-> 0],
             MutateFirst(first_mut), changes)

InitElite ==
  /\ variant \in EliteVariants
  /\ sym = NoSym
  /\ pop = <<>>
  /\ next_pop = <<>>
  /\ mgr = NoMgr
  /\ deleted = <<>>
  /\ InitTracker
  /\ phase = "idle"
  /\ new_org = NoOrg
  /\ parent_pos = 0
  /\ fault = "none"
  /\ trace_out = <<"none">>

EliteFrame == UNCHANGED <<variant, sym, mgr, ltVars, phase, parent_pos>>

\* World::Insert(mem): one copy, appended.
EliteInsert(g) ==
  /\ Running /\ Len(pop) < EliteMaxPop /\ new_org.oid < EliteMaxPop
  /\ LET a == AddOrg_Base(pop, MgrNewOrg(g))
     IN pop' = a.pop /\ trace_out' = <<"Insert", a.pos>>
  /\ new_org' = MgrNewOrg(g)
  /\ UNCHANGED <<next_pop, deleted, fault>>
  /\ EliteFrame

\* The driver selects once per generation, then updates.
EliteSelections == {"EliteSelect", "TournamentSelect"}

\* The values of GetInt(pop.size()) the births of one call draw; the
\* synchronous-generations manager draws none.
EliteDraws(v, n, size) ==
  IF v = "EA" THEN {[i \in 1..n |-> 0]} ELSE [1..n -> 0..(size - 1)]

\* World::EliteSelect(fit_fun, e_count, copy_count); the emp_assert on
\* e_count is the guard.  No object is deleted during the call on the
\* synchronous-generations manager, so no read of one is to be chosen.
EliteSelect(e_count, copy_count, read) ==
  /\ Running /\ trace_out[1] \notin EliteSelections
  /\ EliteAssert(e_count, Len(pop))
  /\ new_org.oid + e_count * copy_count <= EliteMaxOrgs
  /\ variant = "EA" => read = "stale"
  /\ \E draws \in EliteDraws(variant, e_count * copy_count, Len(pop)) :
       LET rank == EliteRank(pop)
           st == EliteLoop(variant,
                   [pop |-> pop, next_pop |-> next_pop, del |-> <<>>,
                    births |-> <<>>, last |-> new_org, k |-> 1, fault |-> "none"],
                   rank, 0, e_count, copy_count, draws, read)
       IN /\ pop' = st.pop
          /\ next_pop' = st.next_pop
          /\ deleted' = DeletedAfter(deleted, st.del)
          /\ new_org' = st.last
          /\ fault' = st.fault
          /\ trace_out' = <<"EliteSelect", e_count, copy_count, st.births, rank>>
  /\ EliteFrame

\* EliteSelect called with an argument its emp_assert rejects.
EliteSelect_Rejected(e_count, copy_count) ==
  /\ Running /\ trace_out[1] \notin EliteSelections
  /\ ~EliteAssert(e_count, Len(pop))
  /\ fault' = "abort"
  /\ trace_out' = <<"EliteSelect", e_count, copy_count, <<>>, <<>>>>
  /\ UNCHANGED <<pop, next_pop, deleted, new_org>>
  /\ EliteFrame

\* World::TournamentSelect(fit_fun, t_size, tourny_count, precalc_fitness).
TournamentSelect(t_size, tourny_count, precalc_fitness) ==
  /\ Running /\ trace_out[1] \notin EliteSelections
  /\ TournamentAssert(t_size, Len(pop))
  /\ new_org.oid + tourny_count <= EliteMaxOrgs
  /\ \E entries \in [1..tourny_count -> Choose(Len(pop), t_size)] :
     \E draws \in EliteDraws(variant, tourny_count, Len(pop)) :
       LET precalc == UsePrecalc(precalc_fitness, t_size, tourny_count, Len(pop))
           rt == TournamentRun(variant, pop, next_pop, new_org, precalc,
                               entries, tourny_count, draws)
       IN /\ pop' = rt.st.pop
          /\ next_pop' = rt.st.next_pop
          /\ deleted' = DeletedAfter(deleted, rt.st.del)
          /\ new_org' = rt.st.last
          /\ fault' = rt.st.fault
          /\ trace_out' = <<"TournamentSelect", t_size, tourny_count,
                            rt.st.births, rt.obs, precalc, precalc_fitness,
                            entries, draws>>
  /\ EliteFrame

\* TournamentSelect called with an argument its emp_assert rejects.
TournamentSelect_Rejected(t_size, tourny_count) ==
  /\ Running /\ trace_out[1] \notin EliteSelections
  /\ ~TournamentAssert(t_size, Len(pop))
  /\ fault' = "abort"
  /\ trace_out' = <<"TournamentSelect", t_size, tourny_count, <<>>, <<>>>>
  /\ UNCHANGED <<pop, next_pop, deleted, new_org>>
  /\ EliteFrame

\* World::MutatePop(mut_fun, first_mut).
EliteMutatePop(first_mut) ==
  /\ Running
  /\ \E changes \in [1..Len(pop) -> BOOLEAN] :
       LET mp == MutatePop(pop, first_mut, changes)
       IN /\ pop' = mp.pop
          /\ trace_out' = <<"MutatePop", first_mut, mp.calls, mp.mut_count, changes>>
  /\ UNCHANGED <<next_pop, deleted, new_org, fault>>
  /\ EliteFrame

\* World::Update: pop.Update(), which does nothing on the Basic manager.
EliteUpdate ==
  /\ Running /\ trace_out[1] \in EliteSelections
  /\ IF variant = "EA"
     THEN LET u == Update_EA(pop, next_pop)
          IN /\ pop' = u.pop /\ next_pop' = u.next_pop
             /\ deleted' = DeletedAfter(deleted, u.del)
     ELSE UNCHANGED <<pop, next_pop, deleted>>
  /\ trace_out' = <<"Update">>
  /\ UNCHANGED <<new_org, fault>>
  /\ EliteFrame

NextElite ==
  \/ \E g \in 1..EliteMaxFit : EliteInsert(g)
  \/ \E e_count \in 1..EliteMaxE : \E copy_count \in 1..EliteMaxCopies :
       \E read \in EliteReads : EliteSelect(e_count, copy_count, read)
  \/ EliteUpdate

SpecElite == InitElite /\ [][NextElite]_vars

\* The mutation pass on populations of up to EliteMaxPop organisms, with
\* first_mut from 0 to MutateMaxFirst.
MutateMaxFirst == 2

NextMutate ==
  \/ \E g \in 1..EliteMaxFit : EliteInsert(g)
  \/ \E first_mut \in 0..MutateMaxFirst : EliteMutatePop(first_mut)

SpecMutate == InitElite /\ [][NextMutate]_vars

\* One selection call, with any argument, on a population of up to
\* SelectMaxPop organisms of fitness 1..SelectMaxFit just inserted.
SelectMaxPop == 3
SelectMaxFit == 2

SelectInsert(g) ==
  /\ Running /\ Len(pop) < SelectMaxPop /\ trace_out[1] \in {"none", "Insert"}
  /\ LET a == AddOrg_Base(pop, MgrNewOrg(g))
     IN pop' = a.pop /\ trace_out' = <<"Insert", a.pos>>
  /\ new_org' = MgrNewOrg(g)
  /\ UNCHANGED <<next_pop, deleted, fault>>
  /\ EliteFrame

NextSelect ==
  \/ \E g \in 1..SelectMaxFit : SelectInsert(g)
  \/ \E e_count \in (0 - 1)..(EliteMaxE + 1) : \E copy_count \in 1..EliteMaxCopies :
       \E read \in EliteReads : EliteSelect(e_count, copy_count, read)
  \/ \E e_count \in (0 - 1)..(EliteMaxE + 1) : \E copy_count \in 1..EliteMaxCopies :
       EliteSelect_Rejected(e_count, copy_count)
  \/ \E t_size \in (0 - 1)..TourneyMaxSize : \E tourny_count \in 1..TourneyMaxCount :
       \E precalc_fitness \in BOOLEAN :
         TournamentSelect(t_size, tourny_count, precalc_fitness)
  \/ \E t_size \in (0 - 1)..(TourneyMaxSize + 1) : \E tourny_count \in 1..TourneyMaxCount :
       TournamentSelect_Rejected(t_size, tourny_count)

SpecSelect == InitElite /\ [][NextSelect]_vars

\* ================================================ longer runs on EA
\* A World on the synchronous-generations manager with the pruned tracker,
\* run for up to DeepMaxOrgs organisms of one genome, with up to
\* DeepMaxPop organisms in the population and in the buffer.
DeepMaxOrgs == 9
DeepMaxPop == 4
DeepGenome == 1

InitDeep ==
  /\ variant = "EA"
  /\ sym = NoSym
  /\ next_pop = <<>>
  /\ deleted = <<>>
  /\ InitManager(variant, mgr, pop)
  /\ InitTracker
  /\ phase = "idle"
  /\ new_org = NoOrg
  /\ parent_pos = 0
  /\ fault = "none"
  /\ trace_out = <<"none">>

DeepMayAllocate == Running /\ phase = "idle" /\ next <= DeepMaxOrgs

\* before_repro_sig.Trigger(parent) -> RecordParent.
DeepBeforeRepro(p) ==
  /\ DeepMayAllocate
  /\ p \in Occupied(pop)
  /\ Len(next_pop) < DeepMaxPop
  /\ IF p < Len(generation_since_update)
     THEN next_parent_id' = RecordParent(p) /\ fault' = fault
     ELSE next_parent_id' = next_parent_id /\ fault' = "undefined"
  /\ phase' = "repro"
  /\ parent_pos' = p
  /\ UNCHANGED <<popVars, nodes, genomes, genome_counts, parents, next,
                 next_org_id, generation_since_update, new_generation, inject,
                 last_coalesence, new_org>>
  /\ trace_out' = <<"none">>

\* Insert: new ORG(mem); inject_ready_sig.Trigger -> TrackInjectedOffspring.
DeepInjectReady ==
  /\ DeepMayAllocate
  /\ Len(pop) < DeepMaxPop
  /\ LET r == AddOrganism(DeepGenome, 0)
     IN Added(r) /\ new_org' = Org(r.id, DeepGenome)
  /\ inject' = TRUE
  /\ phase' = "injected"
  /\ UNCHANGED <<popVars, next_parent_id, generation_since_update,
                 new_generation, last_coalesence, parent_pos, fault>>
  /\ trace_out' = <<"none">>

NextDeep ==
  \/ \E p \in 0..(DeepMaxPop - 1) : DeepBeforeRepro(p)
  \/ OffspringReady
  \/ DeepInjectReady
  \/ PlaceInjectedAppend
  \/ PlaceBirthEA
  \/ UpdateStep

SpecDeep == InitDeep /\ [][NextDeep]_vars

\* ====================================================== SymbulationOrg
\* One SymbulationOrg after Setup.  Genomes are bit vectors of 1 to
\* SymbMaxLen bits, the costs passed to the constructor are -1 (the
\* default) or 1..SymbMaxCost, and a run makes up to SymbMaxSteps calls
\* of Execute.
SymbMaxLen == 2
SymbMaxCost == 4
SymbMaxSteps == 6

\* In the list of bits the symbiont has executed: a reproduction reset the
\* streaks here.
SymbResetMark == 2

BitVectors == UNION {[1..k -> {0, 1}] : k \in 1..SymbMaxLen}
SymbCosts == {0 - 1} \cup (1..SymbMaxCost)

\* SymbulationOrg(genome, h_cost, s_cost).
SymbulationOrg(genome, h_cost, s_cost) ==
  [host |-> genome, symbiont |-> <<>>,
   host_cost |-> IF s_cost < 0 THEN Len(genome) ELSE h_cost,
   symb_cost |-> s_cost,
   host_pos |-> 0, symb_pos |-> 0, host_score |-> 0, symb_score |-> 0,
   streak_00 |-> 0, streak_01 |-> 0, streak_1 |-> 0]

Reset(o) ==
  [o EXCEPT !.host_pos = 0, !.symb_pos = 0, !.host_score = 0, !.symb_score = 0,
            !.streak_00 = 0, !.streak_01 = 0, !.streak_1 = 0]

SetSymbiont(o, in_symb) ==
  [o EXCEPT !.symbiont = in_symb, !.symb_pos = 0, !.symb_score = 0,
            !.streak_00 = 0, !.streak_01 = 0, !.streak_1 = 0]

\* InjectSymbiont(in_symb, random, displace_prob); P is what
\* random.P(displace_prob) gives.
InjectSymbiont(o, in_symb, P) ==
  IF Len(o.symbiont) = 0 \/ P
  THEN [org |-> SetSymbiont(o, in_symb), ret |-> TRUE]
  ELSE [org |-> o, ret |-> FALSE]

\* The default bonus functions of Execute.
symb_bonus00(streak) == streak
host_bonus01_One(streak) == 1
host_bonus01(streak) == streak
host_bonus1(streak) == 1
symb_bonus01(streak) == 0
host_bonus00(streak) == 0

\* TestHostRepro and TestSymbiontRepro on the call record r: the
\* organism, how the call ended so far, and the signals triggered.
TestHostRepro(r) ==
  IF r.fault # "none" THEN r
  ELSE IF ~emp_assert(r.org.host_cost > 0) THEN [r EXCEPT !.fault = "abort"]
  ELSE IF r.org.host_score >= r.org.host_cost
       THEN [r EXCEPT !.org = Reset(r.org), !.sigs = Append(@, "repro_sig")]
       ELSE r

TestSymbiontRepro(r) ==
  IF r.fault # "none" THEN r
  ELSE IF ~emp_assert(r.org.symb_cost > 0) THEN [r EXCEPT !.fault = "abort"]
  ELSE IF r.org.symb_score >= r.org.symb_cost
       THEN [r EXCEPT !.org = [r.org EXCEPT !.symb_pos = 0, !.symb_score = 0,
                                            !.streak_00 = 0, !.streak_01 = 0,
                                            !.streak_1 = 0],
                      !.sigs = Append(@, "symbiont_repro_sig")]
       ELSE r

\* SymbulationOrg::Execute(align_symbiont) with the default bonus
\* functions.  ran is the symbiont bit executed, if one was.
Execute(o, align_symbiont) ==
  LET r0 == [org |-> o, fault |-> "none", sigs |-> <<>>, ran |-> <<>>]
      body ==
        IF At(o.host, o.host_pos) = 1
        THEN TestHostRepro([r0 EXCEPT !.org.streak_1 = @ + 1,
                                      !.org.host_score = @ + host_bonus1(1)])
        ELSE LET o1 == [o EXCEPT !.streak_1 = 0] IN
          IF Len(o.symbiont) = 0 THEN [r0 EXCEPT !.org = o1]
          ELSE LET o2 == [o1 EXCEPT !.symb_pos =
                            IF align_symbiont THEN o.host_pos % Len(o.symbiont) ELSE @]
                   bit == At(o2.symbiont, o2.symb_pos)
                   o3 == IF bit = 1
                         THEN [o2 EXCEPT
                                 !.streak_01 = @ + 1, !.streak_00 = 0,
                                 !.host_score = @ + host_bonus01(o2.streak_01 + 1),
                                 !.symb_score = @ + symb_bonus01(o2.streak_01 + 1)]
                         ELSE [o2 EXCEPT
                                 !.streak_00 = @ + 1, !.streak_01 = 0,
                                 !.host_score = @ + host_bonus00(o2.streak_00 + 1),
                                 !.symb_score = @ + symb_bonus00(o2.streak_00 + 1)]
                   r3 == TestSymbiontRepro(TestHostRepro(
                           [r0 EXCEPT !.org = o3, !.ran = <<bit>>]))
               IN IF r3.fault # "none" THEN r3
                  ELSE [r3 EXCEPT !.org.symb_pos =
                          IF @ + 1 >= Len(o.symbiont) THEN 0 ELSE @ + 1]
  IN IF body.fault # "none" THEN body
     ELSE [body EXCEPT !.org.host_pos = IF @ + 1 >= Len(o.host) THEN 0 ELSE @ + 1]

\* trace_out is <<call, ran, steps, ...>>: ran lists the bits the symbiont
\* now in place has executed, with SymbResetMark wherever a reproduction
\* reset the streaks; steps counts the Execute calls.
InitSymb ==
  /\ variant = "Basic"
  /\ \E genome \in BitVectors : \E h_cost, s_cost \in SymbCosts :
       sym = SymbulationOrg(genome, h_cost, s_cost)
  /\ pop = <<>>
  /\ next_pop = <<>>
  /\ mgr = NoMgr
  /\ deleted = <<>>
  /\ InitTracker
  /\ phase = "idle"
  /\ new_org = NoOrg
  /\ parent_pos = 0
  /\ fault = "none"
  /\ trace_out = <<"SymbulationOrg", <<>>, 0>>

SymbFrame ==
  UNCHANGED <<pop, next_pop, mgr, deleted, ltVars, phase, new_org, parent_pos,
              variant>>

SymbExecute(align_symbiont) ==
  /\ Running /\ trace_out[3] < SymbMaxSteps
  /\ LET r == Execute(sym, align_symbiont)
     IN /\ sym' = r.org
        /\ fault' = r.fault
        /\ trace_out' = <<"Execute",
                          trace_out[2] \o r.ran
                            \o (IF Len(r.sigs) > 0 THEN <<SymbResetMark>> ELSE <<>>),
                          trace_out[3] + 1, align_symbiont, r.sigs>>
  /\ SymbFrame

SymbInjectSymbiont(in_symb, P) ==
  /\ Running
  /\ LET r == InjectSymbiont(sym, in_symb, P)
     IN /\ sym' = r.org
        /\ trace_out' = <<"InjectSymbiont",
                          IF r.ret THEN <<>> ELSE trace_out[2], trace_out[3], r.ret>>
  /\ fault' = fault
  /\ SymbFrame

NextSymb ==
  \/ \E align_symbiont \in BOOLEAN : SymbExecute(align_symbiont)
  \/ \E in_symb \in BitVectors : \E P \in BOOLEAN : SymbInjectSymbiont(in_symb, P)

SpecSymb == InitSymb /\ [][NextSymb]_vars

\* ================================================================ claims
\* The states between operations: no Insert / InsertBirth is in progress
\* and the run has not ended in undefined behaviour.
Settled == phase = "idle" /\ fault = "none"

LiveNodes == {k \in DOMAIN nodes : nodes[k].alive}

\* Following parent links from key k reaches the null org through nodes
\* that exist and are alive or have a surviving child.
RECURSIVE ReachesRoot(_, _)
ReachesRoot(k, fuel) ==
  IF ~MapHas(nodes, k) THEN FALSE
  ELSE IF k = 0 THEN TRUE
  ELSE /\ fuel > 0
       /\ nodes[k].alive \/ Len(nodes[k].offspring) > 0
       /\ nodes[k].parent # NullPtr
       /\ ReachesRoot(Deref(nodes[k].parent), fuel - 1)

\* C1: no over-pruning.  Between operations, following parent links from
\* any live node reaches the root sentinel through nodes that all exist
\* and are each alive or have a non-empty surviving-child list.
C1_NoOverPruning ==
  Settled => \A k \in LiveNodes : ReachesRoot(k, MaxOrgs + 1)

\* C2: no garbage.  Once a placement has finished, no node other than the
\* root sentinel is both not alive and without surviving children, and no
\* child list still names a node that was erased.
C2_NoGarbage ==
  Settled =>
    /\ \A k \in (DOMAIN nodes) \ {0} :
         nodes[k].alive \/ Len(nodes[k].offspring) > 0
    /\ \A k \in DOMAIN nodes : \A c \in Range(nodes[k].offspring) :
         MapHas(nodes, c)

NodesWithGenome(g) == {k \in DOMAIN nodes : nodes[k].genome = Ptr(g)}

\* C3: genome store.  While the run is alive, for every genome value g,
\* genome_counts[g] is the number of nodes whose genome is g, and g is in
\* the genome set exactly when that number is at least 1.
C3_GenomeStore ==
  Running =>
    \A g \in Genomes :
      /\ CountOf(genome_counts, g) = Cardinality(NodesWithGenome(g))
      /\ g \in genomes <=> Cardinality(NodesWithGenome(g)) >= 1

\* The keys met walking parent links of the map ns from k (k included).
RECURSIVE AncestorsOrSelf(_, _, _)
AncestorsOrSelf(ns, k, fuel) ==
  IF ~MapHas(ns, k) THEN {}
  ELSE IF k = 0 \/ fuel = 0 \/ ns[k].parent = NullPtr THEN {k}
  ELSE {k} \cup AncestorsOrSelf(ns, Deref(ns[k].parent), fuel - 1)

Anc(k) == AncestorsOrSelf(nodes, k, MaxOrgs + 1)

IsCommonAncestor(a) == \A k \in LiveNodes : a \in Anc(k)

IsMRCA(a) ==
  /\ MapHas(nodes, a)
  /\ IsCommonAncestor(a)
  /\ \A d \in DOMAIN nodes : (d # a /\ a \in Anc(d)) => ~IsCommonAncestor(d)

\* A placement that followed a birth has finished.
AfterBirthPlacement == Settled /\ ~inject /\ next > 1

\* C4: after every placement that follows a birth, last_coalesence is the
\* most recent common ancestor of all live nodes.
C4_CoalescenceIsMRCA == AfterBirthPlacement => IsMRCA(last_coalesence)

\* C5: the coalescence pointer is monotonic: each new value is the previous
\* value or a descendant of it, and it always names a node of the map.
C5_Step ==
  fault' = "none" =>
    /\ MapHas(nodes', last_coalesence')
    /\ last_coalesence' # last_coalesence =>
         last_coalesence \in AncestorsOrSelf(nodes', last_coalesence', MaxOrgs + 1)

C5_CoalescenceMonotonic == [][C5_Step]_vars

TableIds == {At(generation_since_update, p) : p \in Occupied(pop)}
BufferIds == {At(new_generation, p) :
                p \in (0..(Len(next_pop) - 1)) \cap (0..(Len(new_generation) - 1))}

\* C6: live organisms and lineage nodes correspond one to one.
C6_OneToOne ==
  Settled =>
    /\ \A p \in Occupied(pop) :
         /\ p < Len(generation_since_update)
         /\ MapHas(nodes, At(generation_since_update, p))
         /\ nodes[At(generation_since_update, p)].alive
    /\ \A p, q \in Occupied(pop) :
         (p # q /\ p < Len(generation_since_update)
                /\ q < Len(generation_since_update))
         => At(generation_since_update, p) # At(generation_since_update, q)
    /\ \A k \in LiveNodes : k \in TableIds \cup BufferIds

\* C7: the root sentinel exists, is not alive and is its own parent in
\* every reachable state.
C7_RootSentinel ==
  /\ MapHas(nodes, 0)
  /\ ~nodes[0].alive
  /\ nodes[0].parent = Ptr(0)

\* C2 witness: compaction has erased a node that was issued earlier and
\* the run goes on.
C2_Witness ==
  /\ Settled
  /\ \E id \in 1..(next - 1) : ~MapHas(nodes, id)
  /\ \E k \in (DOMAIN nodes) \ {0} : ~nodes[k].alive

\* C3 witness: one genome's count has gone back to zero and the genome is
\* out of the set, while another genome is shared by two nodes.
C3_Witness ==
  /\ Running
  /\ \E g \in Genomes :
       /\ MapHas(genome_counts, g) /\ genome_counts[g] = 0 /\ g \notin genomes
  /\ \E g \in Genomes : CountOf(genome_counts, g) >= 2

\* A birth placement under SynchronousGenerations.
EABirthPlaced == variant = "EA" /\ phase = "born" /\ phase' = "idle"

\* An Update under SynchronousGenerations.
EAUpdate ==
  variant = "EA" /\ phase = "idle" /\ phase' = "idle" /\ fault = "none"

\* At Update the table becomes the buffer: entry i is the id of the
\* offspring at buffer index i, and the buffer is left empty.
C8_UpdateSwaps ==
  EAUpdate =>
    /\ generation_since_update' = new_generation
    /\ new_generation' = <<>>
    /\ Len(generation_since_update') = Len(next_pop)
    /\ \A i \in 0..(Len(next_pop) - 1) :
         At(generation_since_update', i) = At(next_pop, i).oid

C9_InjectionKeepsCoalescence ==
  [][phase = "injected" => last_coalesence' = last_coalesence]_vars

\* C9 witness: an injected organism has displaced the coalescence node,
\* which is now dead with a single surviving child, after compaction had
\* erased nodes; last_coalesence still names it.
C9_Witness ==
  /\ Settled /\ inject
  /\ last_coalesence # 0 /\ MapHas(nodes, last_coalesence)
  /\ ~nodes[last_coalesence].alive
  /\ Len(nodes[last_coalesence].offspring) = 1
  /\ \E id \in 1..(next - 1) : ~MapHas(nodes, id)

\* C10: TraceLineage and TraceLineageIDs called with an id that is not in
\* the node map end in a precondition violation and leave the node map as
\* it was.
C10_Step ==
  (trace_out'[1] # "none" /\ ~MapHas(nodes, trace_out'[2]))
    => (nodes' = nodes /\ trace_out'[3] = "precondition violation")

C10_UnknownIdIsViolation == [][C10_Step]_vars

\* C10 witness: a trace of an id that was issued and has since been pruned
\* ended in a precondition violation.
C10_Witness ==
  /\ trace_out[1] = "TraceLineage"
  /\ trace_out[2] \in 1..(next - 1)
  /\ trace_out[3] = "precondition violation"
  /\ ~MapHas(nodes, trace_out[2])

\* C11: the tracker rejects or defers out-of-order notifications: an
\* offspring-ready notification that does not follow a parent-recorded
\* one, and a placement notification that does not follow an
\* offspring-ready or injection-ready one, change neither the lineage tree
\* nor the slot-to-id tables.
C11_Step ==
  /\ (phase # "repro" /\ \E g \in Genomes : NotifyOffspring(g))
       => UNCHANGED <<nodes, generation_since_update, new_generation>>
  /\ (phase \notin {"born", "injected"}
        /\ \E pos \in 0..(NotifyMaxPos - 1) : NotifyPlacement(pos))
       => UNCHANGED <<nodes, generation_since_update, new_generation>>

C11_OutOfOrderRejected == [][C11_Step]_vars

\* The sequence <<id, parent(id), parent(parent(id)), ...>> read off the
\* parents record, down to a founder (parent 0).
IsParentChain(t, id) ==
  /\ Len(t) >= 1 /\ t[1] = id
  /\ \A i \in 1..(Len(t) - 1) : t[i + 1] = parents[t[i]]
  /\ parents[t[Len(t)]] = 0
  /\ \A i \in 1..Len(t) : t[i] # 0

\* C13: ids are issued increasing from 1 and every recorded parent id is
\* smaller than its child's id; for every issued id the Standard
\* TraceLineageIDs terminates with the parent chain of the id, newest
\* first, without 0; and while the node exists the Pruned TraceLineageIDs
\* returns the same sequence.
C13_TraceIsParentChain ==
  Settled =>
    /\ DOMAIN parents = 1..(next - 1)
    /\ \A id \in 1..(next - 1) :
         /\ parents[id] \in 0..(id - 1)
         /\ LET t == TraceLineageIDs_Standard(parents, id, MaxOrgs + 2)
            IN /\ t.done
               /\ IsParentChain(t.ids, id)
               /\ (MapHas(nodes, id) /\ nodes[id].id = id)
                    => TraceWalk(nodes, id, TRUE, MaxOrgs + 2) = t.ids

\* A was injected first (id 1) and its offspring B (id 2) has been placed
\* at slot 0, where A was: A and B are the only organisms so far, and A is
\* no longer in the population.
ChildInParentSlot ==
  /\ Settled /\ next = 3 /\ parents[2] = 1
  /\ \A q \in Occupied(pop) : At(pop, q).oid # 1
  /\ Len(pop) >= 1 /\ At(pop, 0).oid = 2
  /\ Len(generation_since_update) >= 1 /\ At(generation_since_update, 0) = 2

\* The table a placement writes, before and after the step.
WrittenBefore ==
  IF PlacementIsBuffered(inject) THEN new_generation ELSE generation_since_update
WrittenAfter ==
  IF PlacementIsBuffered(inject) THEN new_generation' ELSE generation_since_update'

\* The nodes a placement step displaces: the current-table entries of the
\* positions where the step wrote the new organism's id.
Displaced ==
  {At(generation_since_update, pos) :
     pos \in {q \in 0..(Len(generation_since_update) - 1) :
                /\ q < Len(WrittenAfter) /\ At(WrittenAfter, q) = next_org_id
                /\ (q >= Len(WrittenBefore) \/ At(WrittenBefore, q) # next_org_id)}}

\* A birth placement that displaces an ancestor of the new organism keeps
\* that ancestor in the map, dead, with a surviving child.
C12_Step ==
  (phase = "born" /\ phase' = "idle") =>
    \A d \in Displaced :
      (d # 0 /\ d # next_org_id
        /\ d \in AncestorsOrSelf(nodes, next_org_id, MaxOrgs + 1))
      => /\ MapHas(nodes', d)
         /\ ~nodes'[d].alive
         /\ Len(nodes'[d].offspring) >= 1

\* C12: when offspring B is placed in the slot of its own parent A (A
\* injected with id 1 at slot 0), A stays in the map, dead, with B as its
\* only surviving child, and TraceLineageIDs of B returns <<2, 1>>; in
\* general an organism displaced by its own descendant stays in the map.
C12_DisplacedByDescendant ==
  /\ [](ChildInParentSlot =>
          /\ MapHas(nodes, 1)
          /\ ~nodes[1].alive
          /\ nodes[1].offspring = <<2>>
          /\ TraceLineageCall(2, TRUE).out = <<"returned", <<2, 1>>>>)
  /\ [][C12_Step]_vars

\* C12 witness: under the Basic manager B has replaced its parent A in the
\* only slot.
C12_Witness == ChildInParentSlot /\ variant = "Basic" /\ Len(pop) = 1

\* The configured capacity of the manager: max_size (SerialTransfer),
\* width * height (Grid), pop_size, the end of the last pool (Pools).
HasCapacity == variant \in {"SerialTransfer", "Grid", "Pools"}

Capacity ==
  CASE variant = "SerialTransfer" -> mgr.max_size
    [] variant = "Grid" -> mgr.width * mgr.height
    [] variant = "Pools" -> At(mgr.pool_end, Len(mgr.pool_end) - 1)
    [] OTHER -> 0

\* C14: for every manager with a configured capacity, after any sequence
\* of AddOrg and AddOrgBirth calls the number of occupied slots is at most
\* that capacity.
C14_WithinCapacity ==
  HasCapacity => Cardinality(Occupied(pop)) <= Capacity

\* A direct AddOrgBirth call on the given manager that returned.
MgrBirthStep(v) ==
  /\ variant = v /\ fault' = "none"
  /\ new_org' # new_org /\ trace_out'[1] = "AddOrgBirth"

\* The organisms (by identity) a population holds.
Oids(p) == {p[i].oid : i \in {j \in 1..Len(p) : p[j] # NoOrg}}

\* C15: SerialTransfer AddOrgBirth triggers a bottleneck exactly when
\* appending would exceed max_size; the population is then first reduced
\* to bottleneck_size organisms it held, the offspring is appended after
\* them, and num_bottlenecks goes up by one per actual reduction and is
\* otherwise unchanged.
C15_Step ==
  MgrBirthStep("SerialTransfer") =>
    LET kept == SubSeq(pop', 1, Len(pop') - 1)
        reduced == Len(kept) < Len(pop)
    IN /\ Len(pop') >= 1 /\ pop'[Len(pop')] = new_org'
       /\ trace_out'[2] = Len(pop') - 1
       /\ Oids(kept) \subseteq Oids(pop)
       /\ Cardinality(Oids(kept)) = Len(kept)
       /\ IF Len(pop) + 1 > mgr.max_size
          THEN Len(kept) = mgr.bottleneck_size
          ELSE kept = pop
       /\ mgr'.num_bottlenecks =
            mgr.num_bottlenecks + (IF reduced THEN 1 ELSE 0)

C15_BottleneckWhenFull == [][C15_Step]_vars

\* The same for the configurations with bottleneck_size < max_size.
C15_Step_SmallBottleneck ==
  mgr.bottleneck_size < mgr.max_size => C15_Step

C15_SmallBottleneck == [][C15_Step_SmallBottleneck]_vars

\* How often organism o has been deleted.
TimesDeleted(d, o) == IF o \in DOMAIN d THEN d[o] ELSE 0

\* C16: SynchronousGenerations AddOrgBirth leaves the live population as
\* it is, deletes nothing, appends the offspring to next_pop and returns
\* the offspring's index in next_pop.
C16_Step ==
  MgrBirthStep("EA") =>
    /\ pop' = pop
    /\ deleted' = deleted
    /\ next_pop' = Append(next_pop, new_org')
    /\ trace_out'[2] = Len(next_pop)
    /\ At(next_pop', trace_out'[2]) = new_org'

C16_BirthLeavesPopulation == [][C16_Step]_vars

\* C16 witness: a second offspring was appended to the buffer while the
\* live population holds an organism.
C16_Witness ==
  /\ variant = "EA" /\ fault = "none"
  /\ trace_out = <<"AddOrgBirth", 1>>
  /\ Len(pop) >= 1 /\ Len(next_pop) = 2

\* C17: SynchronousGenerations Update deletes every organism of the live
\* population once, makes the live population the buffer (the offspring
\* AddOrgBirth appended since the last Update, in arrival order, none of
\* them deleted) and leaves the buffer empty; only AddOrgBirth and Update
\* change the buffer.
C17_Step ==
  /\ (variant = "EA" /\ trace_out'[1] = "Update") =>
       /\ pop' = next_pop
       /\ next_pop' = <<>>
       /\ \A o \in Oids(pop) :
            TimesDeleted(deleted', o) = TimesDeleted(deleted, o) + 1
       /\ \A o \in Oids(pop') : TimesDeleted(deleted', o) = 0
       /\ \A o \in (DOMAIN deleted') \ Oids(pop) :
            TimesDeleted(deleted', o) = TimesDeleted(deleted, o)
  /\ (variant = "EA" /\ next_pop' # next_pop) =>
       \/ trace_out'[1] = "Update"
       \/ MgrBirthStep("EA") /\ next_pop' = Append(next_pop, new_org')

C17_UpdateSwapsGenerations == [][C17_Step]_vars

\* C17 witness: an Update has replaced a population that held an injected
\* organism by two offspring.
C17_Witness ==
  /\ variant = "EA" /\ trace_out = <<"Update">>
  /\ Len(pop) = 2 /\ next_pop = <<>>
  /\ TimesDeleted(deleted, 1) = 1

\* C18: DoBottleneck(new_size, randomize) changes nothing when new_size is
\* at least the size; otherwise the size becomes new_size, the survivors
\* are distinct organisms the population held, every other organism is
\* deleted exactly once, and without randomize the survivors are the
\* first new_size organisms in order.
C18_Step ==
  trace_out'[1] = "DoBottleneck" =>
    LET new_size == trace_out'[2]
        randomize == trace_out'[3]
    IN IF new_size >= Len(pop)
       THEN pop' = pop /\ deleted' = deleted
       ELSE /\ Len(pop') = new_size
            /\ Oids(pop') \subseteq Oids(pop)
            /\ Cardinality(Oids(pop')) = new_size
            /\ \A o \in Oids(pop) \ Oids(pop') :
                 TimesDeleted(deleted, o) = 0 /\ TimesDeleted(deleted', o) = 1
            /\ \A o \in Oids(pop') : TimesDeleted(deleted', o) = 0
            /\ \A o \in (DOMAIN deleted') \ Oids(pop) :
                 TimesDeleted(deleted', o) = TimesDeleted(deleted, o)
            /\ ~randomize => pop' = SubSeq(pop, 1, new_size)

C18_BottleneckKeepsSurvivors == [][C18_Step]_vars

\* C18 witness: a randomized bottleneck to one organism kept an organism
\* that was not first and deleted two others.
C18_Witness ==
  /\ trace_out = <<"DoBottleneck", 1, TRUE>>
  /\ Len(pop) = 1 /\ pop[1].oid = 3
  /\ TimesDeleted(deleted, 1) = 1 /\ TimesDeleted(deleted, 2) = 1

\* C19: Basic AddOrgBirth, on every population it is called on (one
\* without slots included), returns an index in [0, size), leaves the size
\* as it is, deletes the previous occupant of that slot and changes no
\* other slot.
C19_Step ==
  (variant = "Basic" /\ new_org' # new_org /\ trace_out'[1] = "AddOrgBirth") =>
    /\ fault' = "none"
    /\ Len(trace_out') = 2 /\ trace_out'[2] \in 0..(Len(pop) - 1)
    /\ Len(pop') = Len(pop)
    /\ At(pop', trace_out'[2]) = new_org'
    /\ \A i \in 0..(Len(pop) - 1) : i # trace_out'[2] => At(pop', i) = At(pop, i)
    /\ LET old == At(pop, trace_out'[2])
       IN old # NoOrg =>
            TimesDeleted(deleted', old.oid) = TimesDeleted(deleted, old.oid) + 1

C19_BirthReplacesSlot == [][C19_Step]_vars

\* C20: on a grid of width W and height H, ToID(ToX(i), ToY(i)) = i for
\* every index i in [0, W*H), with ToX(i) in [0, W) and ToY(i) in [0, H);
\* and ToX(ToID(x, y)) = x, ToY(ToID(x, y)) = y for every x in [0, W) and
\* y in [0, H), with ToID(x, y) in [0, W*H).
C20_GridRoundTrip ==
  /\ trace_out[1] = "index" =>
       /\ trace_out[5] = trace_out[2]
       /\ trace_out[3] \in 0..(mgr.width - 1)
       /\ trace_out[4] \in 0..(mgr.height - 1)
  /\ trace_out[1] = "cell" =>
       /\ trace_out[5] = trace_out[2]
       /\ trace_out[6] = trace_out[3]
       /\ trace_out[4] \in 0..(mgr.width * mgr.height - 1)

\* C20 witness: the last cell of a grid that is not square went through
\* ToID and back.
C20_Witness ==
  /\ mgr.width = 3 /\ mgr.height = 4
  /\ trace_out = <<"cell", 2, 3, 11, 2, 3>>

\* A call of AddOrg / AddOrgBirth on a manager of variant v.
SlotCall(v, name) ==
  variant = v /\ new_org' # new_org /\ trace_out'[1] = name

\* C21: Grid AddOrgBirth with the parent at (px, py) returns an index in
\* [0, W*H) whose coordinates are ((px+dx) mod W, (py+dy) mod H), dx and
\* dy in {-1, 0, 1} given by the drawn offset; the offspring sits there,
\* only the previous occupant of that slot is deleted and every other slot
\* is as before.
C21_Step ==
  SlotCall("Grid", "AddOrgBirth") =>
    LET W == mgr.width
        H == mgr.height
        pos == trace_out'[2]
        dx == (trace_out'[3] % 3) - 1
        dy == (trace_out'[3] \div 3) - 1
        px == parent_pos' % W
        py == parent_pos' \div W
    IN /\ fault' = "none"
       /\ pos \in 0..(W * H - 1)
       /\ pos % W = (px + dx) % W
       /\ pos \div W = (py + dy) % H
       /\ Len(pop') = W * H
       /\ At(pop', pos) = new_org'
       /\ \A i \in 0..(W * H - 1) : i # pos => At(pop', i) = At(pop, i)
       /\ \A o \in DOMAIN deleted' :
            TimesDeleted(deleted', o) =
              TimesDeleted(deleted, o) + (IF At(pop, pos).oid = o THEN 1 ELSE 0)

C21_BirthNextToParent == [][C21_Step]_vars

\* C21 witness: on a grid 2 wide and 3 high the offspring of the parent in
\* the corner (0, 0), offset (-1, -1), wrapped to the opposite corner.
C21_Witness ==
  /\ variant = "Grid" /\ mgr.width = 2 /\ mgr.height = 3
  /\ parent_pos = 0 /\ trace_out = <<"AddOrgBirth", 5, 0>>

\* C22: Grid and Pools AddOrg with at least one empty slot returns a slot
\* that was empty, the number of occupied slots grows by one and no
\* organism is deleted.
C22_Step ==
  (variant \in {"Grid", "Pools"} /\ new_org' # new_org
   /\ trace_out'[1] = "AddOrg" /\ Occupied(pop) # 0..(Len(pop) - 1)) =>
    /\ fault' = "none"
    /\ At(pop, trace_out'[2]) = NoOrg
    /\ Cardinality(Occupied(pop')) = Cardinality(Occupied(pop)) + 1
    /\ deleted' = deleted

C22_InjectIntoEmptySlot == [][C22_Step]_vars

\* C23: Grid AddOrg on a full grid returns an index in [0, W*H), deletes
\* the organism in that slot, puts the new one there and leaves the number
\* of occupied slots as it is.
C23_Step ==
  (SlotCall("Grid", "AddOrg") /\ Occupied(pop) = 0..(Len(pop) - 1)) =>
    /\ fault' = "none"
    /\ Len(trace_out') = 2 /\ trace_out'[2] \in 0..(Len(pop) - 1)
    /\ At(pop', trace_out'[2]) = new_org'
    /\ TimesDeleted(deleted', At(pop, trace_out'[2]).oid) = 1
    /\ Cardinality(Occupied(pop')) = Cardinality(Occupied(pop))

C23_InjectIntoFullGrid == [][C23_Step]_vars

\* C27: the k-th Pools AddOrg, k < pool_count, puts the organism into
\* pool k and deletes no injected organism; from k = pool_count on the
\* slot is any slot of the population.
C27_Step ==
  SlotCall("Pools", "AddOrg") =>
    LET k == mgr.org_count
        pos == trace_out'[2]
    IN /\ fault' = "none"
       /\ mgr'.org_count = k + 1
       /\ pos \in 0..(Len(pop) - 1)
       /\ At(pop', pos) = new_org'
       /\ k < mgr.pool_count =>
            /\ At(mgr.pool_id, pos) = k
            /\ At(pop, pos).g # SlotInjected
            /\ \A q \in Occupied(pop) :
                 At(pop, q).g = SlotInjected => At(mgr.pool_id, q) < k

C27_RoundRobinFirst == [][C27_Step]_vars

\* C27 witness: with two pools the third injection landed in pool 0, which
\* had its injected organism already, while pool 1 holds the second.
C27_Witness ==
  /\ variant = "Pools" /\ mgr.pool_count = 2 /\ mgr.org_count = 3
  /\ trace_out[1] = "AddOrg" /\ At(mgr.pool_id, trace_out[2]) = 0
  /\ \E q \in Occupied(pop) : At(mgr.pool_id, q) = 1 /\ At(pop, q).oid = 2

\* The pools adjacent to pool k in the configuration c.
Adjacent(c, k) == IF MapHas(c, k) THEN Range(c[k]) ELSE {}

\* C28: Pools AddOrgBirth puts the offspring into the pool of the parent's
\* slot or into a pool adjacent to the parent's pool, never migrates from
\* a pool without adjacency, returns a slot of the target pool and leaves
\* the adjacency configuration as it is.
C28_Step ==
  SlotCall("Pools", "AddOrgBirth") =>
    LET pos == trace_out'[2]
        home == At(mgr.pool_id, parent_pos')
        target == At(mgr.pool_id, pos)
    IN /\ fault' = "none"
       /\ pos \in 0..(Len(pop) - 1)
       /\ target = trace_out'[3]
       /\ target = home \/ target \in Adjacent(mgr.connections, home)
       /\ Adjacent(mgr.connections, home) = {} => target = home
       /\ mgr'.connections = mgr.connections

C28_BirthStaysOrMigrates == [][C28_Step]_vars

\* The state right after a call ConfigPop(pc, ps, ..., pop_size).
AfterConfigPop == trace_out[1] = "ConfigPop"
CfgPc == trace_out[2]
CfgPs == trace_out[3]
CfgPopSize == trace_out[4]

\* Range k of the topology m: [PoolLo(m, k), PoolHi(m, k)).
PoolLo(m, k) == IF k = 0 THEN 0 ELSE At(m.pool_end, k - 1)
PoolHi(m, k) == At(m.pool_end, k)

\* The pool ranges are pool_count contiguous ranges that cover [0, n), and
\* pool_id names the range of every index.
TopologyCovers(m, n) ==
  /\ Len(m.pool_end) = m.pool_count
  /\ Len(m.pool_id) = n
  /\ \A k \in 0..(m.pool_count - 1) : PoolLo(m, k) <= PoolHi(m, k)
  /\ m.pool_count >= 1 /\ PoolHi(m, m.pool_count - 1) = n
  /\ \A i \in 0..(n - 1) : \A k \in 0..(m.pool_count - 1) :
       At(m.pool_id, i) = k <=> (PoolLo(m, k) <= i /\ i < PoolHi(m, k))

CfgValid ==
  \/ Len(CfgPs) = 0
  \/ Len(CfgPs) = 1 /\ CfgPc * CfgPs[1] = CfgPopSize
  \/ Len(CfgPs) > 1 /\ Len(CfgPs) = CfgPc /\ SumSeq(CfgPs) = CfgPopSize

CfgMalformed ==
  \/ Len(CfgPs) = 1 /\ CfgPc * CfgPs[1] # CfgPopSize
  \/ Len(CfgPs) > 1 /\ Len(CfgPs) = CfgPc /\ SumSeq(CfgPs) # CfgPopSize
  \/ Len(CfgPs) > 1 /\ Len(CfgPs) # CfgPc

\* C24: when ConfigPop has returned from a valid configuration (explicit
\* sizes, one size for all pools, or no sizes) the manager has pool_count
\* contiguous ranges [pool_end[k-1], pool_end[k]) that cover [0, pop_size)
\* and pool_id[i] = k exactly when i lies in range k.
C24_PoolsCoverPopulation ==
  (AfterConfigPop /\ CfgValid /\ fault = "none") =>
    /\ trace_out[5] = "ok"
    /\ mgr.pool_count = CfgPc
    /\ Len(pop) = CfgPopSize
    /\ TopologyCovers(mgr, CfgPopSize)

\* C24 witness: two pools and no sizes on a population of 42 gave the
\* ranges [0, 40) and [40, 42).
C24_Witness ==
  /\ trace_out = <<"ConfigPop", 2, <<>>, PoolDefaultSize + 2, "ok">>
  /\ mgr.pool_end = <<PoolDefaultSize, PoolDefaultSize + 2>>

\* C25: a malformed size configuration ends ConfigPop with a configuration
\* error, and no AddOrg runs on a manager whose pool topology is missing.
C25_MalformedIsSetupError ==
  /\ (AfterConfigPop /\ CfgMalformed) => fault = "abort"
  /\ fault # "undefined"

\* The sizes of the pools of the topology m.
PoolSizesOf(m) == [k \in 1..Len(m.pool_end) |-> PoolHi(m, k - 1) - PoolLo(m, k - 1)]

\* C26: ConfigPop without sizes, pool_count >= 1 and pop_size >=
\* pool_count, returns with pool_count positive sizes that differ by at
\* most one and sum to pop_size.
C26_DerivedSizes ==
  (AfterConfigPop /\ Len(CfgPs) = 0 /\ CfgPopSize >= CfgPc) =>
    /\ fault = "none" /\ trace_out[5] = "ok"
    /\ LET sz == PoolSizesOf(mgr)
       IN /\ Len(sz) = CfgPc
          /\ \A k \in 1..Len(sz) : sz[k] >= 1
          /\ SumSeq(sz) = CfgPopSize
          /\ \A j, k \in 1..Len(sz) : sz[j] - sz[k] <= 1

\* A call of EliteSelect; its arguments and what it did.
EliteCall == trace_out'[1] = "EliteSelect" /\ new_org' # new_org
EliteE == trace_out'[2]
EliteCopies == trace_out'[3]
EliteBirths == trace_out'[4]
EliteRanking == trace_out'[5]

\* The k-th highest fitness in the population p, counted with repeats.
KthBest(p, k) ==
  CHOOSE v \in {fit_fun(At(p, j)) : j \in 0..(Len(p) - 1)} :
    /\ Cardinality({j \in 0..(Len(p) - 1) : fit_fun(At(p, j)) > v}) < k
    /\ Cardinality({j \in 0..(Len(p) - 1) : fit_fun(At(p, j)) >= v}) >= k

\* C29: EliteSelect(fit, e_count, copy_count) makes e_count * copy_count
\* births: copy_count copies of each of the e_count organisms that had the
\* highest fitness in the population the call began with, on every
\* manager.
C29_Step ==
  EliteCall =>
    /\ fault' = "none"
    /\ Len(EliteBirths) = EliteE * EliteCopies
    /\ new_org'.oid = new_org.oid + EliteE * EliteCopies
    /\ \A i \in 1..EliteE :
         \E q \in 0..(Len(pop) - 1) :
           /\ fit_fun(At(pop, q)) = KthBest(pop, i)
           /\ \A j \in 1..EliteCopies :
                EliteBirths[(i - 1) * EliteCopies + j] =
                  [src |-> At(pop, q).oid, g |-> At(pop, q).g]
    /\ \A i1, i2 \in 1..EliteE :
         i1 # i2 => EliteBirths[(i1 - 1) * EliteCopies + 1].src
                      # EliteBirths[(i2 - 1) * EliteCopies + 1].src

C29_EliteCopies == [][C29_Step]_vars

\* The ranking is by falling fitness, and ties(a, b) holds for the
\* indices a, b of two organisms of equal fitness when a is ranked ahead.
RankedBy(p, rank, ties(_, _)) ==
  /\ Len(rank) = Len(p)
  /\ Range(rank) = 0..(Len(p) - 1)
  /\ \A a, b \in 1..Len(rank) :
       a < b => \/ fit_fun(At(p, rank[a])) > fit_fun(At(p, rank[b]))
                \/ /\ fit_fun(At(p, rank[a])) = fit_fun(At(p, rank[b]))
                   /\ ties(rank[a], rank[b])

EarlierFirst(i, j) == i < j
LaterFirst(i, j) == i > j

\* C30 as stated: EliteSelect ranks by falling fitness and, among
\* organisms of equal fitness, ranks and selects the one that comes
\* earlier in the population first.
C30_Step_EarlierFirst ==
  EliteCall =>
    /\ RankedBy(pop, EliteRanking, EarlierFirst)
    /\ EliteBirths[1].src = At(pop, EliteRanking[1]).oid

C30_TiesEarlierFirst == [][C30_Step_EarlierFirst]_vars

\* C30, amended: EliteSelect ranks by falling fitness and, among
\* organisms of equal fitness, ranks and selects the one that comes later
\* in the population first.
C30_Step ==
  EliteCall =>
    /\ RankedBy(pop, EliteRanking, LaterFirst)
    /\ EliteBirths[1].src = At(pop, EliteRanking[1]).oid

C30_TiesLaterFirst == [][C30_Step]_vars

\* C30 witness: of two organisms of fitness 2 the second was ranked first
\* and copied.
C30_Witness ==
  /\ variant = "EA"
  /\ pop = <<Org(1, 2), Org(2, 2)>>
  /\ trace_out = <<"EliteSelect", 1, 1, <<[src |-> 2, g |-> 2]>>, <<1, 0>>>>

\* C31: EliteSelect with e_count <= 0 or e_count > population size, and
\* TournamentSelect with t_size <= 0 or t_size > population size, end in
\* a precondition violation: no birth is made, the population and the
\* buffer are as before, and the call neither clamps its argument nor
\* returns as if nothing were wrong.
SelectionCall == trace_out'[1] \in {"EliteSelect", "TournamentSelect"}
SelectionArg == trace_out'[2]

C31_Step ==
  (SelectionCall /\ ~(SelectionArg > 0 /\ SelectionArg <= Len(pop))) =>
    /\ fault' = "abort"
    /\ pop' = pop /\ next_pop' = next_pop
    /\ new_org' = new_org /\ deleted' = deleted

C31_RejectedSelectionChangesNothing == [][C31_Step]_vars

C31_Witness ==
  /\ fault = "abort" /\ trace_out[1] = "EliteSelect"
  /\ Len(pop) > 0 /\ trace_out[2] > Len(pop)

\* An accepted TournamentSelect call and what it reported.
TourneyCall == trace_out'[1] = "TournamentSelect" /\ fault' = "none"
TourneySize == trace_out'[2]
TourneyCount == trace_out'[3]
TourneyBirths == trace_out'[4]
TourneyObs == trace_out'[5]
TourneyPath == trace_out'[6]
TourneyPrecalcArg == trace_out'[7]
TourneyEntries == trace_out'[8]
TourneyDraws == trace_out'[9]

\* C32: TournamentSelect(fit, t_size, tourny_count) makes tourny_count
\* births; every tournament draws t_size different indices, and copies
\* the organism at the first-drawn index whose fitness -- that of the
\* organism at the index when the tournament is run -- is the highest
\* among the entrants.
C32_Step ==
  TourneyCall =>
    /\ Len(TourneyBirths) = TourneyCount
    /\ new_org'.oid = new_org.oid + TourneyCount
    /\ \A T \in 1..TourneyCount :
         LET o == TourneyObs[T]
         IN /\ Len(o.entries) = TourneySize
            /\ Range(o.entries) \subseteq 0..(Len(pop) - 1)
            /\ Cardinality(Range(o.entries)) = TourneySize
            /\ \E i \in 1..TourneySize :
                 /\ \A j \in 1..TourneySize : fit_fun(o.occ[j]) <= fit_fun(o.occ[i])
                 /\ \A j \in 1..(i - 1) : fit_fun(o.occ[j]) < fit_fun(o.occ[i])
                 /\ TourneyBirths[T] = [src |-> o.occ[i].oid, g |-> o.occ[i].g]

C32_TournamentCopiesFittestEntrant == [][C32_Step]_vars

\* C38: TournamentSelect takes the precomputed path exactly when
\* precalc_fitness is set and t_size * tourny_count * 2 >= population
\* size, and for the same draws the two paths copy the same organisms in
\* the same order, whatever the manager.
C38_Step ==
  TourneyCall =>
    /\ TourneyPath <=> (TourneyPrecalcArg
                         /\ TourneySize * TourneyCount * 2 >= Len(pop))
    /\ TournamentRun(variant, pop, next_pop, new_org, TRUE,
                     TourneyEntries, TourneyCount, TourneyDraws).st.births
         = TournamentRun(variant, pop, next_pop, new_org, FALSE,
                         TourneyEntries, TourneyCount, TourneyDraws).st.births

C38_PrecalcIsOnlyAnOptimisation == [][C38_Step]_vars

\* A MutatePop call and what it reported.
MutateCall == trace_out'[1] = "MutatePop"
MutateFirstArg == trace_out'[2]
MutateCalls == trace_out'[3]
MutateCount == trace_out'[4]
MutateChanges == trace_out'[5]

\* C33: the mutation pass calls the mutation function once on every
\* organism at index 1 .. size-1, in index order, and never on index 0;
\* it returns the number of those calls that reported a change; the
\* organism at index 0 is as before whatever first_mut is.
C33_Step ==
  MutateCall =>
    /\ MutateCalls = [i \in 1..(Len(pop) - 1) |-> i]
    /\ MutateCount = Cardinality({i \in 1..(Len(pop) - 1) : MutateChanges[i + 1]})
    /\ Len(pop') = Len(pop)
    /\ Len(pop) > 0 => At(pop', 0) = At(pop, 0)
    /\ \A i \in 1..(Len(pop) - 1) :
         At(pop', i) = IF MutateChanges[i + 1] THEN Mutated(At(pop, i))
                       ELSE At(pop, i)

BirthPlacement == phase = "born" /\ phase' = "idle" /\ fault' = "none"

PlacementTable ==
  IF PlacementIsBuffered(inject) THEN new_generation' ELSE generation_since_update'

PlacementPos ==
  CHOOSE pos \in 0..(Len(PlacementTable) - 1) : At(PlacementTable, pos) = next_org_id

\* Where the compaction of the placement at pos stops, and the node map
\* it leaves.
CompactionAt(pos) ==
  LET gsu1 == GrownTo(generation_since_update, pos)
      k == At(gsu1, pos)
  IN Prune([nodes |-> [NodesWith(nodes, k) EXCEPT ![k].alive = FALSE],
            genomes |-> genomes, genome_counts |-> genome_counts,
            curr |-> k, ub |-> FALSE])

\* From node a of ns, steps from a node that is not alive and has exactly
\* one surviving child to that child lead to node b.
RECURSIVE AdvancesTo(_, _, _, _)
AdvancesTo(ns, a, b, fuel) ==
  \/ a = b
  \/ /\ fuel > 0 /\ MapHas(ns, a)
     /\ ~ns[a].alive /\ Len(ns[a].offspring) = 1
     /\ AdvancesTo(ns, ns[a].offspring[1], b, fuel - 1)

\* C34: last_coalesence changes only inside a birth placement whose
\* compaction stopped at the node last_coalesence names; it then moves,
\* one step at a time, from a node that is not alive and has exactly one
\* surviving child to that child, and goes on until the node reached is
\* alive or does not have exactly one surviving child.
C34_Step ==
  /\ last_coalesence' # last_coalesence =>
       /\ BirthPlacement
       /\ CompactionAt(PlacementPos).curr = last_coalesence
       /\ AdvancesTo(nodes', last_coalesence, last_coalesence', next)
  /\ (BirthPlacement /\ CompactionAt(PlacementPos).curr = last_coalesence) =>
       /\ AdvancesTo(nodes', last_coalesence, last_coalesence', next)
       /\ MapHas(nodes', last_coalesence')
       /\ nodes'[last_coalesence'].alive
            \/ Len(nodes'[last_coalesence'].offspring) # 1

C34_CoalescenceStepRule == [][C34_Step]_vars

\* C35: a placement that follows an injection removes no node from the
\* node map and decrements no genome count, even when the injected
\* organism displaces an organism without surviving children.
C35_Step ==
  phase = "injected" =>
    /\ \A k \in DOMAIN nodes : MapHas(nodes', k)
    /\ \A g \in Genomes : CountOf(genome_counts', g) >= CountOf(genome_counts, g)

C35_InjectionNeverPrunes == [][C35_Step]_vars

\* C36: under SynchronousGenerations a birth placed in the buffer removes
\* no node and changes the liveness of no node of the current generation,
\* so every organism of the population stays alive in the tracker and
\* RecordParent of its slot names its node; after Update the nodes of the
\* replaced generation are not alive, and are gone unless they have
\* surviving children.
C36_Step ==
  /\ EABirthPlaced =>
       /\ \A k \in DOMAIN nodes : MapHas(nodes', k)
       /\ \A p \in Occupied(pop) :
            p < Len(generation_since_update) =>
              LET k == RecordParent(p)
              IN (MapHas(nodes, k) /\ nodes[k].alive) => nodes'[k].alive
  /\ EAUpdate =>
       \A p \in Occupied(pop) :
         (p < Len(generation_since_update) /\ RecordParent(p) # 0
            /\ MapHas(nodes', RecordParent(p))) =>
           /\ ~nodes'[RecordParent(p)].alive
           /\ Len(nodes'[RecordParent(p)].offspring) > 0

C36_BufferedBirthKeepsGeneration == [][C36_Step]_vars

\* C37: driven by the same events the Standard and the Pruned tracker
\* issue the same ids, and for every organism of the population
\* TraceLineageIDs of the Pruned tracker returns what TraceLineageIDs of
\* the Standard tracker returns.  (Both trackers number with next++ and
\* record parents[id]; the model keeps the one next and the one parents.)
C37_PruningKeepsAncestry ==
  Settled =>
    \A p \in Occupied(pop) :
      LET id == At(pop, p).oid
      IN TraceLineageCall(id, TRUE).out =
           <<"returned", TraceLineageIDs_Standard(parents, id, MaxOrgs + 2).ids>>

\* An Execute call, and what it found at the positions it started from.
SymbCall == trace_out'[1] = "Execute"
HostBit == At(sym.host, sym.host_pos)
SymbPresent == Len(sym.symbiont) > 0
SymbAt == IF trace_out'[4] THEN sym.host_pos % Len(sym.symbiont) ELSE sym.symb_pos
SymbBit == At(sym.symbiont, SymbAt)
SymbRuns == HostBit = 0 /\ SymbPresent
Wrap(pos, size) == IF pos + 1 >= size THEN 0 ELSE pos + 1

\* How many times b ends the sequence h.
RECURSIVE TrailingRun(_, _)
TrailingRun(h, b) ==
  IF Len(h) = 0 \/ h[Len(h)] # b THEN 0
  ELSE 1 + TrailingRun(SubSeq(h, 1, Len(h) - 1), b)

\* The consecutive symbiont bits b executed so far, this one included:
\* over all the symbiont has executed, and since the last reset.
RunSoFar(b) ==
  TrailingRun(SelectSeq(trace_out[2], LAMBDA x : x # SymbResetMark) \o <<b>>, b)
RunSinceReset(b) == TrailingRun(trace_out[2] \o <<b>>, b)

\* C39 as stated: every Execute step scores as the file header says -- a
\* host 1 adds 1 to the host score; a host 0 lets a symbiont execute one
\* instruction and without one changes no score; a symbiont 1 adds to the
\* host score the number of consecutive symbiont ones so far, a symbiont
\* 0 adds to the symbiont score the number of consecutive symbiont zeros
\* so far -- and the positions advance inside their genomes, wrapping.
C39_Step_AsStated ==
  SymbCall =>
    /\ HostBit = 1 =>
         /\ sym'.host_score = sym.host_score + 1
         /\ sym'.symb_score = sym.symb_score
    /\ (HostBit = 0 /\ ~SymbPresent) =>
         /\ sym'.host_score = sym.host_score
         /\ sym'.symb_score = sym.symb_score
         /\ sym'.symb_pos = sym.symb_pos
    /\ (SymbRuns /\ SymbBit = 1) => sym'.host_score = sym.host_score + RunSoFar(1)
    /\ (SymbRuns /\ SymbBit = 0) => sym'.symb_score = sym.symb_score + RunSoFar(0)
    /\ SymbRuns => sym'.symb_pos = Wrap(SymbAt, Len(sym.symbiont))
    /\ sym'.host_pos = Wrap(sym.host_pos, Len(sym.host))

C39_Step ==
  SymbCall =>
    LET addH == IF HostBit = 1 THEN 1
                ELSE IF SymbRuns /\ SymbBit = 1 THEN RunSinceReset(1) ELSE 0
        addS == IF SymbRuns /\ SymbBit = 0 THEN RunSinceReset(0) ELSE 0
        hs == sym.host_score + addH
        ss == sym.symb_score + addS
        tested == HostBit = 1 \/ SymbRuns
        hostAbort == tested /\ sym.host_cost <= 0
        hostRepro == tested /\ ~hostAbort /\ hs >= sym.host_cost
        symbAbort == SymbRuns /\ ~hostAbort /\ sym.symb_cost <= 0
        symbRepro == /\ SymbRuns /\ ~hostAbort /\ ~symbAbort
                     /\ (IF hostRepro THEN 0 ELSE ss) >= sym.symb_cost
    IN IF hostAbort \/ symbAbort THEN fault' = "abort"
       ELSE /\ fault' = "none"
            /\ sym'.host = sym.host /\ sym'.symbiont = sym.symbiont
            /\ sym'.host_score = IF hostRepro THEN 0 ELSE hs
            /\ sym'.symb_score = IF hostRepro \/ symbRepro THEN 0 ELSE ss
            /\ sym'.host_pos =
                 Wrap(IF hostRepro THEN 0 ELSE sym.host_pos, Len(sym.host))
            /\ sym'.symb_pos =
                 IF SymbRuns
                 THEN Wrap(IF hostRepro \/ symbRepro THEN 0 ELSE SymbAt,
                           Len(sym.symbiont))
                 ELSE IF hostRepro THEN 0 ELSE sym.symb_pos
            /\ sym'.host_pos \in 0..(Len(sym.host) - 1)
            /\ SymbPresent => sym'.symb_pos \in 0..(Len(sym.symbiont) - 1)

====
